---- MODULE Spec2Model ----
(***************************************************************************)
(* Line-change metrics recorder of vscode-copilot-chat.                    *)
(*                                                                         *)
(*   variant "A": src/src/extension/metrics/node/lineChangeRecorder.ts,    *)
(*                first definition (lines 1-456): per-file emission,       *)
(*                remote endpoint resolved through content exclusion.      *)
(*   variant "B": src/unnamed/part_000: session-end emission, resolver     *)
(*                with organization-level fallback stages.                 *)
(*                                                                         *)
(* Three specifications share the variables:                               *)
(*   SpecScan      the rule scan of one policy response (pure functions)   *)
(*   SpecResolver  getMetricsRemoteUrl calls of one process (A or B)       *)
(*   Spec          the per-file stream wrapper of variant A, whose tasks   *)
(*                 call the resolver of variant A                          *)
(***************************************************************************)
EXTENDS Integers, Sequences, FiniteSets, TLC

(* ------------------------------ bounds --------------------------------- *)
MaxRules == 2
MaxGroups == 2
MaxFolders == 2
MaxCalls == 2
MaxEvents == 2
MaxEdits == 1
MaxFaults == 1

(* ------------------------- program constants --------------------------- *)
BatchSize == 10
maxTries == 10

(* --------------------------- value domains ----------------------------- *)
NoUrl == "<undefined>"
Unknown == "<unknown>"
NoneCached == "<null>"

UrlCm == "https://metrics.example/cm"
UrlStar == "https://metrics.example/star"
UrlOther == "HTTP://metrics.example/other"

RuleCm == [name |-> "copilot-metrics", paths |-> <<UrlCm>>]
RuleStar == [name |-> "*", paths |-> <<UrlStar, "docs/**">>]
RuleOther == [name |-> "secrets", paths |-> <<UrlOther>>]
RuleNoUrl == [name |-> " Copilot-Metrics", paths |-> <<"src/secret/**">>]
Rules == {RuleCm, RuleStar, RuleOther, RuleNoUrl}

SeqsUpTo(S, n) == UNION {[1..m -> S] : m \in 0..n}

NullGroup == [isNull |-> TRUE, rules |-> <<>>]
Groups == {[isNull |-> FALSE, rules |-> r] : r \in SeqsUpTo(Rules, MaxRules)} \cup {NullGroup}
Responses == SeqsUpTo(Groups, MaxGroups)

(* String(rule.source.name).trim().toLowerCase() on the names of Rules *)
NormName(n) == IF n = " Copilot-Metrics" THEN "copilot-metrics" ELSE n

(* /^https?:\/\//i on the path strings of Rules *)
IsHttpUrl(s) == s \in {UrlCm, UrlStar, UrlOther}

Qualifies(rule) == Len(rule.paths) > 0 /\ IsHttpUrl(rule.paths[1])

(* ---------------- rule scan of getMetricsRemoteUrl (per batch) --------- *)
(* The inner loop over one group's rules, from rule j on, with the value   *)
(* of `chosen` so far: "copilot-metrics" and "*" break, any other          *)
(* qualifying rule is kept only if nothing is chosen yet.                  *)
RECURSIVE ScanRules(_, _, _)
ScanRules(rules, j, chosen) ==
    IF j > Len(rules) THEN chosen
    ELSE LET rule == rules[j]
             name == NormName(rule.name)
         IN IF ~Qualifies(rule) THEN ScanRules(rules, j + 1, chosen)
            ELSE IF name = "copilot-metrics" THEN rule.paths[1]
            ELSE IF name = "*" THEN rule.paths[1]
            ELSE ScanRules(rules, j + 1, IF chosen = NoUrl THEN rule.paths[1] ELSE chosen)

(* The outer loop over the groups of one response: stops at the first      *)
(* group that chose something; a null group makes `repoRules.rules` throw, *)
(* which the batch's catch swallows (nothing is chosen at that point).     *)
RECURSIVE ScanBatch(_, _)
ScanBatch(data, g) ==
    IF g > Len(data) THEN NoUrl
    ELSE IF data[g].isNull THEN NoUrl
    ELSE LET c == ScanRules(data[g].rules, 1, NoUrl)
         IN IF c # NoUrl THEN c ELSE ScanBatch(data, g + 1)

(* ---------------- processContentExclusionData (part_000) --------------- *)
RECURSIVE FirstQualifying(_, _)
FirstQualifying(rules, j) ==
    IF j > Len(rules) THEN NoUrl
    ELSE IF Qualifies(rules[j]) THEN rules[j].paths[1]
    ELSE FirstQualifying(rules, j + 1)

RECURSIVE ProcessGroups(_, _)
ProcessGroups(data, g) ==
    IF g > Len(data) THEN NoUrl
    ELSE IF data[g].isNull THEN ProcessGroups(data, g + 1)
    ELSE LET c == FirstQualifying(data[g].rules, 1)
         IN IF c # NoUrl THEN c ELSE ProcessGroups(data, g + 1)

processContentExclusionData(data) ==
    IF Len(data) = 0 THEN NoUrl ELSE ProcessGroups(data, 1)

(* ------------------------------ state ---------------------------------- *)
VARIABLES
    variant,            \* "A" lineChangeRecorder.ts, "B" part_000
    services,           \* capiClientService and gitService were passed in
    folders,            \* per workspace folder, the number of non-empty remote fetch URLs
    cachedMetricsUrl,   \* module-level _cachedMetricsUrl: Unknown, NoneCached or a URL
    calls,              \* the getMetricsRemoteUrl calls made so far, in call order
    lastDone,           \* the call that returned most recently (0: none yet)
    policy,             \* what the policy service may answer: [answers, failures]
    faults,             \* failures injected so far (bounded by MaxFaults)
    scan,               \* SpecScan: the response under scan and the two scan results
    doc,                \* per file, the text of the document now (Missing: it cannot be opened)
    originals,          \* wrapper: Map key -> captured original text
    originalPromises,   \* wrapper: Map key -> the capture read's promise
    touched,            \* wrapper: Map key -> Uri, as its keys in insertion order
    persisted,          \* wrapper: Set of keys
    tasks,              \* the deferred per-file pipelines and the finalize flush
    finalized,          \* the stream's finalize callback has been called
    posts,              \* the records handed to fetch(POST), each with its task
    writes,             \* the records written to a local file, each with its task
    events,             \* number of text-edit events delivered so far
    lateDone,           \* files that got an isDone event when already in `persisted`
    edits,              \* edits applied to documents so far
    delta,              \* SpecDelta: one computeSingleFileDelta call and the record built from it
    sessionStats,       \* AgentFileChangeTracker.sessionStats
    save,               \* the saveSessionStats call in progress, if any
    fsOps,              \* calls made to IFileSystemService, in order
    tracked,            \* the last trackFileChange* call: its arguments and its return value
    mgr,                \* AgentSessionManager: its fields and the call in progress
    tools,              \* AgentSessionSingleton.instance and the EditFileResult being rendered
    session,            \* part_000 wrapper: accumulatedChanges and the finishSession calls
    snap                \* one getStableSnapshot call: its reads so far

wrapperVars == <<doc, originals, originalPromises, touched, persisted, tasks, finalized,
                 posts, writes, events, lateDone, edits>>
extraVars == <<tools, session, snap>>
auxVars == <<delta, sessionStats, save, fsOps, tracked, mgr, extraVars>>
vars == <<variant, services, folders, policy, cachedMetricsUrl, calls, lastDone, faults, scan,
          doc, originals, originalPromises, touched, persisted, tasks, finalized,
          posts, writes, events, lateDone, edits, delta, sessionStats, save, fsOps, tracked, mgr,
          tools, session, snap>>

Keys == {"f1", "f2"}
(* A text is a non-empty sequence of lines; the empty sequence stands for  *)
(* "no text": a document that cannot be opened, a Map entry not yet set.   *)
Missing == <<>>
Undef == <<>>
EmptyText == <<"">>

IdleScan == [pc |-> "idle", data |-> <<>>, batch |-> NoUrl, pced |-> NoUrl]

(* no entry in originalPromises; reads, before: the capture reads started  *)
(* for the key so far and the document's text when the first one started   *)
NoPromise == [state |-> "none", value |-> Undef, reads |-> 0, before |-> Undef]

(* queued microtasks run before any I/O completion is delivered *)
MicrotasksDrained == \A i \in DOMAIN tasks : tasks[i].pc # "queued"
IdleWrapper ==
    /\ doc = [k \in Keys |-> Missing]
    /\ originals = [k \in Keys |-> Undef]
    /\ originalPromises = [k \in Keys |-> NoPromise]
    /\ touched = <<>>
    /\ persisted = {}
    /\ tasks = <<>>
    /\ finalized = FALSE
    /\ posts = {}
    /\ writes = {}
    /\ events = 0
    /\ lateDone = {}
    /\ edits = 0

(* `undefined` as the result of computeSingleFileDelta, and a delta *)
NoSingle == [some |-> FALSE, added |-> 0, removed |-> 0]
Single(a, r) == [some |-> TRUE, added |-> a, removed |-> r]

IdleDelta == [pc |-> "idle", variant |-> "A", original |-> EmptyText, modified |-> EmptyText,
              diffOk |-> TRUE, pathOk |-> TRUE, single |-> NoSingle, diffCalled |-> FALSE,
              path |-> "none", record |-> NoSingle, ext |-> "", language |-> "",
              inFolder |-> TRUE, displayPath |-> <<>>, fileBase |-> <<>>]

(* createNewSession(): the id is generated, the totals are 0, the list is empty *)
createNewSession ==
    [sessionId |-> "generated", totalFilesChanged |-> 0, totalAddedLines |-> 0,
     totalRemovedLines |-> 0, fileChanges |-> <<>>]

(* no getSessionStats call has returned. A returned value holds copies of  *)
(* the scalar fields and the fileChanges array itself: alias says that the *)
(* array is still the one of the tracker's sessionStats; atReturn is the   *)
(* list at the time of the call                                            *)
NoReturned == [some |-> FALSE, sessionId |-> "", totalFilesChanged |-> 0, totalAddedLines |-> 0,
               totalRemovedLines |-> 0, alias |-> FALSE, fileChanges |-> <<>>, atReturn |-> <<>>]

NoTracked == [call |-> "none", operation |-> "", oldContent |-> Undef, newContent |-> Undef,
              addedLines |-> 0, removedLines |-> 0, before |-> createNewSession,
              returned |-> NoReturned]

(* a new AgentSessionManager: no tracker, agent mode off, no session id *)
(* pc: "ending" while endCurrentSession awaits saveSessionStats; lastOp: the *)
(* last mode-changing call that returned; ops, sessionEnds: calls made and  *)
(* agentSessionEnd events sent so far; endChanges, endSaved, endEvents: of  *)
(* the last endCurrentSession call, the changes its tracker held when it    *)
(* was called, whether it called saveSessionStats and the events it sent    *)
NewManager == [currentTracker |-> FALSE, isAgentModeActive |-> FALSE, sessionId |-> "null",
               pc |-> "idle", lastOp |-> "new", ops |-> 0, sessionEnds |-> 0,
               endChanges |-> 0, endSaved |-> FALSE, endEvents |-> 0]

(* no saveSessionStats call has been made; hasFolder: the workspace has a folder *)
(* detached: the tracker the call runs on was replaced in the manager; its  *)
(* session id is then kept in `sessionId`                                   *)
IdleSave == [pc |-> "idle", hasFolder |-> TRUE, calls |-> 0, changesAtStart |-> 0, mark |-> 0,
             sessionId |-> "", detached |-> FALSE, rejected |-> FALSE,
             mkdirFailed |-> FALSE, writeFailed |-> FALSE, logged |-> FALSE]

(* no tool has run: no singleton instance, no EditFileResult constructed   *)
(* pc: where render() is; tracker, stats: the tracker of the element's own *)
(* manager; processed, edited: files handled and successfullyEditedFiles;  *)
(* printed, saved: printSessionStats / saveSessionStats were called by     *)
(* this render; savedChanges, trackedAtSave: the changes in the stats it   *)
(* saved and the changes tracked by all tools by then; renderTracked,      *)
(* allTracked: changes tracked by this render and by all tools; last: the  *)
(* file handled last and what was recorded for it                          *)
NoFile == [operation |-> "none", before |-> Undef, after |-> Undef, tracked |-> FALSE,
           addedLines |-> 0, removedLines |-> 0]
IdleTools == [instance |-> FALSE, pc |-> "idle", tracker |-> FALSE, stats |-> createNewSession,
              processed |-> 0, edited |-> 0, printed |-> FALSE, saved |-> FALSE,
              savedChanges |-> 0, trackedAtSave |-> 0, renderTracked |-> 0, allTracked |-> 0,
              renders |-> 0, creates |-> 0, last |-> NoFile]

(* the part_000 wrapper as constructed: accumulatedChanges is empty (its    *)
(* entries in insertion order), no finishSession call was made (runs);     *)
(* doneSeen: an isDone event was seen; again: the states of a file's       *)
(* capture read at which a further event for the file arrived; failed:     *)
(* the files whose capture read failed                                     *)
IdleSession == [accumulatedChanges |-> <<>>, runs |-> <<>>, doneSeen |-> FALSE,
                again |-> {}, failed |-> {}]

(* no getStableSnapshot call is under way; of a call: texts, the results   *)
(* of its reads in order (Missing: the read failed); last and i, its       *)
(* variables; result, what it returned; rejected, it threw instead         *)
IdleSnap == [pc |-> "idle", texts |-> <<>>, last |-> Undef, i |-> 0, result |-> Undef,
             rejected |-> FALSE]

IdleExtra ==
    /\ tools = IdleTools
    /\ session = IdleSession
    /\ snap = IdleSnap

IdleAux ==
    /\ IdleExtra
    /\ delta = IdleDelta
    /\ sessionStats = createNewSession
    /\ save = IdleSave
    /\ fsOps = <<>>
    /\ tracked = NoTracked
    /\ mgr = NewManager

(* --------------------------- SpecScan ---------------------------------- *)
ScanInit ==
    /\ variant = "A"
    /\ services = TRUE
    /\ folders = <<>>
    /\ policy = [answers |-> {}, failures |-> {}]
    /\ cachedMetricsUrl = Unknown
    /\ calls = <<>>
    /\ lastDone = 0
    /\ faults = 0
    /\ scan \in {[pc |-> "input", data |-> d, batch |-> NoUrl, pced |-> NoUrl] : d \in Responses}
    /\ IdleWrapper
    /\ IdleAux

RunScan ==
    /\ scan.pc = "input"
    /\ scan' = [scan EXCEPT !.pc = "scanned",
                            !.batch = ScanBatch(scan.data, 1),
                            !.pced = processContentExclusionData(scan.data)]
    /\ UNCHANGED <<variant, services, folders, policy, cachedMetricsUrl, calls, lastDone, faults>>
    /\ UNCHANGED wrapperVars
    /\ UNCHANGED auxVars

ScanNext == RunScan

SpecScan == ScanInit /\ [][ScanNext]_vars

(* C3: a well-formed response holding a qualifying "*" rule and a          *)
(* qualifying "copilot-metrics" rule resolves to the "copilot-metrics"     *)
(* URL, in the per-batch scan and in processContentExclusionData,          *)
(* whichever rule comes first.                                             *)
HasRule(data, rule) ==
    \E g \in 1..Len(data) : \E j \in 1..Len(data[g].rules) : data[g].rules[j] = rule
WellFormed(data) == \A g \in 1..Len(data) : ~data[g].isNull
C3_CopilotMetricsWins ==
    (scan.pc = "scanned" /\ WellFormed(scan.data)
        /\ HasRule(scan.data, RuleCm) /\ HasRule(scan.data, RuleStar))
    => (scan.batch = UrlCm /\ scan.pced = UrlCm)

(* C11: in a well-formed response that holds a qualifying rule named       *)
(* "copilot-metrics" or "*", a qualifying rule of another name is never    *)
(* the one selected: the fallback candidate is superseded, also by a rule  *)
(* of a later group, in the per-batch scan and in                          *)
(* processContentExclusionData.                                            *)
C11_FallbackSuperseded ==
    (scan.pc = "scanned" /\ WellFormed(scan.data) /\ HasRule(scan.data, RuleOther)
        /\ (HasRule(scan.data, RuleCm) \/ HasRule(scan.data, RuleStar)))
    => (scan.batch # UrlOther /\ scan.pced # UrlOther)

(* ---------------------- getMetricsRemoteUrl ---------------------------- *)
(* One call is a record: pc is the await it is suspended at ("token",      *)
(* "folders", "batch", "empty", "fake") or "done"; reqs logs the policy    *)
(* requests it issued, in order, each with its outcome; how names the      *)
(* return statement it left by; `after` is the call that had returned most *)
(* recently when this one was made (0: none had returned).                 *)
FolderUrlCounts == {0, 6}
PolicyAnswers ==
    { <<>>,
      <<[isNull |-> FALSE, rules |-> <<RuleNoUrl>>]>>,
      <<[isNull |-> FALSE, rules |-> <<RuleStar>>]>>,
      <<[isNull |-> FALSE, rules |-> <<RuleOther, RuleCm>>]>>,
      <<NullGroup>> }
Failures == {"throw", "notok", "badjson"}

NewCall == [pc |-> "token", folder |-> 0, nUrls |-> 0, i |-> 0, chosen |-> NoUrl,
            reqs |-> <<>>, result |-> NoUrl, how |-> "", rejected |-> FALSE, after |-> 0]

Out(rc, cache) == [rc |-> rc, cache |-> cache]
Returned(rc, url, how) == [rc EXCEPT !.pc = "done", !.result = url, !.how = how]

(* makeRequest(..., {repos}) is called: the call now awaits its answer *)
Issue(rc, kind) ==
    [rc EXCEPT !.pc = kind, !.reqs = Append(@, [kind |-> kind, outcome |-> "pending"])]
Answered(rc, outcome) ==
    [rc EXCEPT !.reqs = [@ EXCEPT ![Len(@)] = [@ EXCEPT !.outcome = outcome]]]
OutcomeOf(url) == IF url = NoUrl THEN "nomatch" ELSE "match"

(* if (chosen) { cache = chosen.url; return it } cache = null; return undefined *)
Conclude(rc, cache) ==
    IF rc.chosen # NoUrl THEN Out(Returned(rc, rc.chosen, "chosen"), rc.chosen)
    ELSE Out(Returned(rc, NoUrl, "nomatch"), NoneCached)

(* mutant: the outer catch returns undefined without caching "none" *)
OuterCatchForgetsCache(rc, cache) == Out(Returned(rc, NoUrl, "catch"), cache)

(* the function's outer catch *)
OuterCatch(rc, cache) == Out(Returned(rc, NoUrl, "catch"), NoneCached)

(* what follows the repository batches: A concludes; B goes on to the      *)
(* organization-level stages when nothing was chosen                       *)
AfterBatches(v, rc, cache) ==
    IF v = "B" /\ rc.chosen = NoUrl THEN Out(Issue(rc, "empty"), cache)
    ELSE Conclude(rc, cache)

(* for (let i = 0; i < fetchUrls.length && !chosen; i += 10), at the test *)
BatchLoop(v, rc, cache) ==
    IF rc.i < rc.nUrls /\ rc.chosen = NoUrl THEN Out(Issue(rc, "batch"), cache)
    ELSE AfterBatches(v, rc, cache)

(* after the folder loop: A gives up at once when no URL was gathered *)
AfterFolders(v, rc, cache) ==
    IF v = "A" /\ rc.nUrls = 0 THEN Out(Returned(rc, NoUrl, "nourls"), NoneCached)
    ELSE BatchLoop(v, rc, cache)

(* for (const folder of folders): the next getRepositoryFetchUrls await *)
FolderLoop(v, rc, cache) ==
    IF rc.folder < Len(folders)
    THEN Out([rc EXCEPT !.pc = "folders", !.folder = @ + 1], cache)
    ELSE AfterFolders(v, rc, cache)

(* mutant: a failing batch ends the whole lookup in the outer catch *)
BatchFailedAborts(v, rc, cache) == OuterCatch(rc, cache)

(* a batch whose request threw, answered not-ok or did not parse:          *)
(* `continue` / catch { ignore this batch }, then i += 10                  *)
BatchFailed(v, rc, cache) == BatchLoop(v, [rc EXCEPT !.i = @ + BatchSize], cache)

(* getAnyGitHubSession rejected: the outer catch *)
TokenFailed(rc, cache) == OuterCatch(rc, cache)

(* the synchronous head of a call: the cache check and the services check *)
EnterCall(cache, after) ==
    LET rc == [NewCall EXCEPT !.after = after]
    IN IF cache # Unknown
       THEN Out(Returned(rc, IF cache = NoneCached THEN NoUrl ELSE cache, "cache"), cache)
       ELSE IF ~services THEN Out(Returned(rc, NoUrl, "noservices"), NoneCached)
       ELSE Out(rc, cache)

SetCall(c, out) ==
    /\ calls' = [calls EXCEPT ![c] = out.rc]
    /\ cachedMetricsUrl' = out.cache
    /\ lastDone' = IF out.rc.pc = "done" THEN c ELSE lastDone

Fault == faults < MaxFaults /\ faults' = faults + 1
NoFault == faults' = faults

ResolveToken(c) ==
    /\ MicrotasksDrained
    /\ calls[c].pc = "token"
    /\ \/ NoFault /\ SetCall(c, FolderLoop(variant, calls[c], cachedMetricsUrl))
       \/ Fault /\ SetCall(c, TokenFailed(calls[c], cachedMetricsUrl))
    /\ UNCHANGED <<variant, services, folders, policy, scan>>
    /\ UNCHANGED wrapperVars
    /\ UNCHANGED auxVars

ResolveFolder(c) ==
    /\ MicrotasksDrained
    /\ calls[c].pc = "folders"
    /\ \/ /\ NoFault
          /\ SetCall(c, FolderLoop(variant,
                    [calls[c] EXCEPT !.nUrls = @ + folders[calls[c].folder]], cachedMetricsUrl))
       \/ Fault /\ SetCall(c, FolderLoop(variant, calls[c], cachedMetricsUrl))
    /\ UNCHANGED <<variant, services, folders, policy, scan>>
    /\ UNCHANGED wrapperVars
    /\ UNCHANGED auxVars

ResolveBatch(c) ==
    /\ MicrotasksDrained
    /\ calls[c].pc = "batch"
    /\ \/ \E data \in policy.answers :
            LET url == ScanBatch(data, 1)
                rc == [Answered(calls[c], OutcomeOf(url)) EXCEPT !.chosen = url, !.i = @ + BatchSize]
            IN NoFault /\ SetCall(c, BatchLoop(variant, rc, cachedMetricsUrl))
       \/ \E f \in policy.failures :
            Fault /\ SetCall(c, BatchFailed(variant, Answered(calls[c], f), cachedMetricsUrl))
    /\ UNCHANGED <<variant, services, folders, policy, scan>>
    /\ UNCHANGED wrapperVars
    /\ UNCHANGED auxVars

(* part_000 only: the request with an empty repository list *)
ResolveEmpty(c) ==
    /\ calls[c].pc = "empty"
    /\ \/ \E data \in policy.answers :
            LET url == processContentExclusionData(data)
                rc == [Answered(calls[c], OutcomeOf(url)) EXCEPT !.chosen = url]
            IN /\ NoFault
               /\ SetCall(c, IF url = NoUrl THEN Out(Issue(rc, "fake"), cachedMetricsUrl)
                                            ELSE Conclude(rc, cachedMetricsUrl))
       \/ \E f \in policy.failures :
            Fault /\ SetCall(c, Out(Issue(Answered(calls[c], f), "fake"), cachedMetricsUrl))
    /\ UNCHANGED <<variant, services, folders, policy, scan>>
    /\ UNCHANGED wrapperVars
    /\ UNCHANGED auxVars

(* part_000 only: the request with the placeholder repository URL *)
ResolveFake(c) ==
    /\ calls[c].pc = "fake"
    /\ \/ \E data \in policy.answers :
            LET url == processContentExclusionData(data)
                rc == [Answered(calls[c], OutcomeOf(url)) EXCEPT !.chosen = url]
            IN NoFault /\ SetCall(c, Conclude(rc, cachedMetricsUrl))
       \/ \E f \in policy.failures :
            Fault /\ SetCall(c, Conclude(Answered(calls[c], f), cachedMetricsUrl))
    /\ UNCHANGED <<variant, services, folders, policy, scan>>
    /\ UNCHANGED wrapperVars
    /\ UNCHANGED auxVars

(* --------------------------- SpecResolver ------------------------------ *)
ResolverInit ==
    /\ variant \in {"A", "B"}
    /\ services \in BOOLEAN
    /\ folders \in SeqsUpTo(FolderUrlCounts, MaxFolders)
    /\ policy = [answers |-> PolicyAnswers, failures |-> Failures]
    /\ cachedMetricsUrl = Unknown
    /\ calls = <<>>
    /\ lastDone = 0
    /\ faults = 0
    /\ scan = IdleScan
    /\ IdleWrapper
    /\ IdleAux

StartCall ==
    /\ Len(calls) < MaxCalls
    /\ LET out == EnterCall(cachedMetricsUrl, lastDone)
       IN /\ calls' = Append(calls, out.rc)
          /\ cachedMetricsUrl' = out.cache
          /\ lastDone' = IF out.rc.pc = "done" THEN Len(calls) + 1 ELSE lastDone
    /\ UNCHANGED <<variant, services, folders, policy, faults, scan>>
    /\ UNCHANGED wrapperVars
    /\ UNCHANGED auxVars

ResolverNext ==
    \/ StartCall
    \/ \E c \in DOMAIN calls : ResolveToken(c)
    \/ \E c \in DOMAIN calls : ResolveFolder(c)
    \/ \E c \in DOMAIN calls : ResolveBatch(c)
    \/ \E c \in DOMAIN calls : ResolveEmpty(c)
    \/ \E c \in DOMAIN calls : ResolveFake(c)

SpecResolver == ResolverInit /\ [][ResolverNext]_vars

(* C6: a call made after another call has returned issues no policy        *)
(* request, returns at once, and returns what the call that returned most  *)
(* recently returned - a URL, or undefined when "none" was cached, also    *)
(* when that came from a failed lookup.                                    *)
C6_SecondCallReadsCache ==
    \A c \in DOMAIN calls :
        calls[c].after # 0 =>
            /\ calls[c].pc = "done"
            /\ calls[c].reqs = <<>>
            /\ calls[c].result = calls[calls[c].after].result
HasFailedRequest(rc) == \E j \in 1..Len(rc.reqs) : rc.reqs[j].outcome \in Failures
C6_Witness ==
    \E c \in DOMAIN calls :
        /\ calls[c].after # 0
        /\ calls[c].pc = "done"
        /\ calls[c].result = NoUrl
        /\ HasFailedRequest(calls[calls[c].after])

(* C8: getMetricsRemoteUrl never rejects; it returns undefined or an       *)
(* http(s) URL whatever fails; a repository batch that fails (request      *)
(* throws, answers not-ok, or does not parse) is skipped and the batch     *)
(* after it, if there is one, is still queried.                            *)
C8_NeverThrows ==
    \A c \in DOMAIN calls :
        LET rc == calls[c]
        IN /\ ~rc.rejected
           /\ rc.pc = "done" => (rc.result = NoUrl \/ IsHttpUrl(rc.result))
           /\ \A j \in 1..Len(rc.reqs) :
                (rc.reqs[j].kind = "batch" /\ rc.reqs[j].outcome \in Failures
                    /\ j * BatchSize < rc.nUrls)
                => (Len(rc.reqs) > j /\ rc.reqs[j + 1].kind = "batch")
C8_Witness ==
    \E c \in DOMAIN calls :
        /\ calls[c].pc = "done"
        /\ Len(calls[c].reqs) >= 2
        /\ calls[c].reqs[1].kind = "batch" /\ calls[c].reqs[1].outcome \in Failures
        /\ calls[c].reqs[2].kind = "batch" /\ calls[c].reqs[2].outcome = "match"
        /\ IsHttpUrl(calls[c].result)

(* C9: in lineChangeRecorder.ts, a call that gathered no fetch URL tries   *)
(* the organization-wide lookup (a request with an empty repository list)  *)
(* before it caches "none".                                                *)
IssuedKind(rc, kind) == \E j \in 1..Len(rc.reqs) : rc.reqs[j].kind = kind
C9_OrgLookupBeforeNone ==
    \A c \in DOMAIN calls :
        (variant = "A" /\ calls[c].pc = "done" /\ calls[c].how \in {"nourls", "nomatch"}
            /\ calls[c].nUrls = 0)
        => IssuedKind(calls[c], "empty")

(* C10: in part_000 (services present) the stages run in the order         *)
(* repository batches, one empty-list request, one placeholder request;    *)
(* a later stage runs only after every earlier request matched nothing;    *)
(* the placeholder request is issued iff the empty-list request failed or  *)
(* matched nothing; and a call caches "none" only after all stages were    *)
(* run and matched nothing.                                                *)
Rank(kind) == IF kind = "batch" THEN 1 ELSE IF kind = "empty" THEN 2 ELSE 3
NBatches(n) == (n + BatchSize - 1) \div BatchSize
StagesOrdered(rc) ==
    /\ \A j, k \in 1..Len(rc.reqs) :
         j < k => /\ Rank(rc.reqs[j].kind) <= Rank(rc.reqs[k].kind)
                  /\ rc.reqs[k].kind # "batch" => rc.reqs[j].kind # rc.reqs[k].kind
                  /\ rc.reqs[j].outcome \in Failures \cup {"nomatch"}
    /\ \A k \in 1..Len(rc.reqs) :
         rc.reqs[k].kind = "empty" => k = NBatches(rc.nUrls) + 1
PlaceholderIffEmptyFailed(rc) ==
    \A j \in 1..Len(rc.reqs) :
        (rc.reqs[j].kind = "empty" /\ rc.reqs[j].outcome # "pending")
        => (IssuedKind(rc, "fake") <=> rc.reqs[j].outcome \in Failures \cup {"nomatch"})
NoneOnlyAfterAllStages(rc) ==
    (rc.pc = "done" /\ rc.result = NoUrl /\ rc.how # "cache")
    => /\ Len(rc.reqs) = NBatches(rc.nUrls) + 2
       /\ rc.reqs[Len(rc.reqs)].kind = "fake"
       /\ \A j \in 1..Len(rc.reqs) : rc.reqs[j].outcome \in Failures \cup {"nomatch"}
C10_StagesInOrder ==
    \A c \in DOMAIN calls :
        (variant = "B" /\ services)
        => /\ StagesOrdered(calls[c])
           /\ PlaceholderIffEmptyFailed(calls[c])
           /\ NoneOnlyAfterAllStages(calls[c])
(* the first two parts of C10 alone (they hold of part_000) *)
C10_OrderPartHolds ==
    \A c \in DOMAIN calls :
        (variant = "B" /\ services)
        => (StagesOrdered(calls[c]) /\ PlaceholderIffEmptyFailed(calls[c]))

(* C39: the endpoint cache is one-way: once _cachedMetricsUrl holds        *)
(* "none" or a URL, no step of any resolver call changes it, however the   *)
(* calls interleave.                                                       *)
CacheKept == cachedMetricsUrl # Unknown => cachedMetricsUrl' = cachedMetricsUrl
C39_CacheIsOneWay == [][CacheKept]_vars

(* ------------------- the per-file stream wrapper (A) ------------------- *)
(* A text is the sequence of its lines as split('\n') gives them: ''       *)
(* is one empty line, and a text that ends with a line break has an empty  *)
(* last line.                                                              *)
Texts == {EmptyText, <<"a", "">>, <<"a", "b">>}

(* IDiffService.computeDiff: one change span between the common prefix     *)
(* and the common suffix of the two line sequences, none for equal texts.  *)
RECURSIVE CommonPrefix(_, _, _)
CommonPrefix(o, m, n) ==
    IF n < Len(o) /\ n < Len(m) /\ o[n + 1] = m[n + 1] THEN CommonPrefix(o, m, n + 1) ELSE n
RECURSIVE CommonSuffix(_, _, _, _)
CommonSuffix(o, m, p, n) ==
    IF n < Len(o) - p /\ n < Len(m) - p /\ o[Len(o) - n] = m[Len(m) - n]
    THEN CommonSuffix(o, m, p, n + 1) ELSE n
computeDiff(o, m) ==
    IF o = m THEN <<>>
    ELSE LET p == CommonPrefix(o, m, 0)
             q == CommonSuffix(o, m, p, 0)
         IN <<[original |-> [startLineNumber |-> p + 1, endLineNumberExclusive |-> Len(o) - q + 1],
               modified |-> [startLineNumber |-> p + 1, endLineNumberExclusive |-> Len(m) - q + 1]]>>

RECURSIVE SumChanges(_, _, _)
SumChanges(changes, j, acc) ==
    IF j > Len(changes) THEN acc
    ELSE SumChanges(changes, j + 1,
            [addedLines |-> acc.addedLines
                + changes[j].modified.endLineNumberExclusive - changes[j].modified.startLineNumber,
             removedLines |-> acc.removedLines
                + changes[j].original.endLineNumberExclusive - changes[j].original.startLineNumber])
computeAdditionsAndDeletions(original, modified) ==
    SumChanges(computeDiff(original, modified), 1, [addedLines |-> 0, removedLines |-> 0])

Range(q) == {q[j] : j \in DOMAIN q}

(* One task is a deferred pipeline (queueMicrotask) or the finalize flush. *)
(* pc: "queued", then the await it is suspended at ("awaitOrig", "read",   *)
(* "reread", "diff", "record", "resolve", "post"), or "done". A flush      *)
(* holds in `rest` the remaining files after the one it is working on.     *)
(* lateKeys: the files of the task that were in `persisted` when it was    *)
(* scheduled.                                                              *)
NewTask(kind, key, rest, late) ==
    [kind |-> kind, key |-> key, rest |-> rest, pc |-> "queued", original |-> Undef,
     last |-> Undef, tries |-> 0, added |-> 0, removed |-> 0, call |-> 0, lateKeys |-> late,
     outcome |-> "running"]

(* mutant: the pending-read map is not consulted *)
ShouldCaptureUnlessCaptured(k) == originals[k] = Undef

(* if (!originals.has(key) && !originalPromises.has(key)) *)
ShouldCapture(k) == originals[k] = Undef /\ originalPromises[k].state = "none"

(* originalPromises.set(key, p) for a read started now *)
StartCapture(k) ==
    [originalPromises EXCEPT ![k] = [@ EXCEPT !.state = "pending", !.value = Undef,
                                              !.reads = @ + 1, !.before = doc[k]]]

(* if (part.isDone && !persisted.has(key)) *)
ShouldScheduleAlways(k, isDone) == isDone
ShouldSchedule(k, isDone) == isDone /\ k \notin persisted

(* [...touched.values()].filter(u => !persisted.has(u.toString())) *)
Remaining == SelectSeq(touched, LAMBDA k : k \notin persisted)

(* mutant: a capture read still pending is not awaited *)
BeginNoAwait(t, k) ==
    LET u == [t EXCEPT !.key = k, !.original = Undef, !.last = Undef, !.tries = 0,
                       !.added = 0, !.removed = 0]
    IN IF originals[k] # Undef THEN [u EXCEPT !.original = originals[k], !.pc = "read"]
       ELSE [u EXCEPT !.original = EmptyText, !.pc = "read"]

(* computeSingleFileDelta up to its first await: the original comes from   *)
(* `originals`, or from the pending promise, or is ''                      *)
Begin(t, k) ==
    LET u == [t EXCEPT !.key = k, !.original = Undef, !.last = Undef, !.tries = 0,
                       !.added = 0, !.removed = 0]
    IN IF originals[k] # Undef THEN [u EXCEPT !.original = originals[k], !.pc = "read"]
       ELSE IF originalPromises[k].state # "none" THEN [u EXCEPT !.pc = "awaitOrig"]
       ELSE [u EXCEPT !.original = EmptyText, !.pc = "read"]

(* the end of one file's work: a deferred pipeline is over, the flush      *)
(* goes on with its next file                                              *)
Finished(t) ==
    [t EXCEPT !.pc = "done", !.original = Undef, !.last = Undef, !.tries = 0,
              !.added = 0, !.removed = 0, !.call = 0, !.outcome = "returned"]
EndFile(t) ==
    IF t.kind = "flush" /\ t.rest # <<>>
    THEN Begin([t EXCEPT !.rest = Tail(t.rest)], Head(t.rest))
    ELSE Finished(t)

(* `if (!single) return` in the pipeline, `continue` in the flush *)
NoDelta(t) == EndFile(t)

(* mutant: the exception leaves the callback *)
ThrowEscapes(t) == [Finished(t) EXCEPT !.outcome = "rejected"]

(* an exception in the task body: both catch clauses end the task; the     *)
(* flush's try encloses its whole loop, so its remaining files are left    *)
Throw(t) == [Finished(t) EXCEPT !.outcome = "caught"]

SetTask(i, t) == tasks' = [tasks EXCEPT ![i] = t]

OnTextEdit(k, isDone) ==
    /\ ~finalized
    /\ events < MaxEvents
    /\ k = "f1" \/ "f1" \in Range(touched)      \* files are named in the order of their first event
    /\ events' = events + 1
    /\ lateDone' = IF isDone /\ k \in persisted THEN lateDone \cup {k} ELSE lateDone
    /\ touched' = IF k \in Range(touched) THEN touched ELSE Append(touched, k)
    /\ originalPromises' = IF ShouldCapture(k) THEN StartCapture(k) ELSE originalPromises
    /\ tasks' = IF ShouldSchedule(k, isDone)
                THEN Append(tasks, NewTask("deferred", k, <<>>, {k} \cap persisted))
                ELSE tasks
    /\ UNCHANGED <<variant, services, folders, policy, cachedMetricsUrl, calls, lastDone, faults, scan, auxVars,
                   doc, originals, persisted, finalized, posts, writes, edits>>

(* the capture read settles: .then(s => originals.set(key, text)) or       *)
(* .catch(() => '')                                                        *)
ResolveCapture(k) ==
    /\ MicrotasksDrained
    /\ originalPromises[k].state = "pending"
    /\ IF doc[k] = Missing
       THEN /\ originalPromises' = [originalPromises EXCEPT
                                            ![k] = [@ EXCEPT !.state = "resolved", !.value = EmptyText]]
            /\ UNCHANGED originals
       ELSE /\ originalPromises' = [originalPromises EXCEPT
                                            ![k] = [@ EXCEPT !.state = "resolved", !.value = doc[k]]]
            /\ originals' = [originals EXCEPT ![k] = doc[k]]
    /\ UNCHANGED <<variant, services, folders, policy, cachedMetricsUrl, calls, lastDone, faults, scan, auxVars,
                   doc, touched, persisted, tasks, finalized, posts, writes, events,
                   lateDone, edits>>

(* the editor applies an edit of the agent to the document *)
ApplyEdit(k) ==
    /\ MicrotasksDrained
    /\ k \in Range(touched)
    /\ edits < MaxEdits
    /\ edits' = edits + 1
    /\ \E text \in Texts \ {doc[k]} : doc' = [doc EXCEPT ![k] = text]
    /\ UNCHANGED <<variant, services, folders, policy, cachedMetricsUrl, calls, lastDone, faults, scan, auxVars,
                   originals, originalPromises, touched, persisted, tasks, finalized,
                   posts, writes, events, lateDone>>

(* the finalize callback: the flush starts on its first remaining file *)
Finalize ==
    /\ ~finalized
    /\ finalized' = TRUE
    /\ LET rem == Remaining
           t == NewTask("flush", "", rem, Range(rem) \cap persisted)
       IN tasks' = Append(tasks, EndFile(t))
    /\ UNCHANGED <<variant, services, folders, policy, cachedMetricsUrl, calls, lastDone, faults, scan, auxVars,
                   doc, originals, originalPromises, touched, persisted, posts, writes,
                   events, lateDone, edits>>

frameTask == <<variant, services, folders, policy, scan, auxVars, doc, originals, originalPromises,
               touched, finalized, writes, events, lateDone, edits>>

(* the queued microtask runs *)
RunMicrotask(i) ==
    /\ tasks[i].pc = "queued"
    /\ SetTask(i, Begin(tasks[i], tasks[i].key))
    /\ UNCHANGED <<cachedMetricsUrl, calls, lastDone, faults, persisted, posts>>
    /\ UNCHANGED frameTask

(* `original = await p` resumes *)
AwaitOrig(i) ==
    /\ MicrotasksDrained
    /\ tasks[i].pc = "awaitOrig"
    /\ originalPromises[tasks[i].key].state = "resolved"
    /\ SetTask(i, [tasks[i] EXCEPT !.original = originalPromises[tasks[i].key].value, !.pc = "read"])
    /\ UNCHANGED <<cachedMetricsUrl, calls, lastDone, faults, persisted, posts>>
    /\ UNCHANGED frameTask

(* getStableSnapshot: `let last = await read()` *)
FirstRead(i) ==
    /\ MicrotasksDrained
    /\ tasks[i].pc = "read"
    /\ SetTask(i, IF doc[tasks[i].key] = Missing THEN NoDelta(tasks[i])
                  ELSE [tasks[i] EXCEPT !.last = doc[tasks[i].key], !.tries = 0, !.pc = "reread"])
    /\ UNCHANGED <<cachedMetricsUrl, calls, lastDone, faults, persisted, posts>>
    /\ UNCHANGED frameTask

(* getStableSnapshot: one turn of the loop, sleep(100) then read(); the    *)
(* diff is called when the loop returns                                    *)
Reread(i) ==
    /\ MicrotasksDrained
    /\ tasks[i].pc = "reread"
    /\ LET t == tasks[i]
           next == doc[t.key]
       IN SetTask(i, IF next = Missing THEN NoDelta(t)
                     ELSE IF next = t.last THEN [t EXCEPT !.pc = "diff"]
                     ELSE IF t.tries + 1 >= maxTries THEN [t EXCEPT !.last = next, !.pc = "diff"]
                     ELSE [t EXCEPT !.last = next, !.tries = @ + 1])
    /\ UNCHANGED <<cachedMetricsUrl, calls, lastDone, faults, persisted, posts>>
    /\ UNCHANGED frameTask

(* computeDiff settles; a non-zero delta starts the record: getResponseId  *)
(* is called, then getGitUrlOrWorkspacePath and getModelName are awaited   *)
Diff(i) ==
    /\ MicrotasksDrained
    /\ tasks[i].pc = "diff"
    /\ LET t == tasks[i]
           d == computeAdditionsAndDeletions(t.original, t.last)
       IN \/ /\ NoFault
             /\ SetTask(i, IF d.addedLines = 0 /\ d.removedLines = 0 THEN NoDelta(t)
                           ELSE [t EXCEPT !.added = d.addedLines, !.removed = d.removedLines,
                                          !.pc = "record"])
          \/ /\ Fault                          \* computeDiff rejects
             /\ SetTask(i, NoDelta(t))
          \/ /\ Fault                          \* getResponseId throws
             /\ d.addedLines + d.removedLines > 0
             /\ SetTask(i, Throw(t))
    /\ UNCHANGED <<cachedMetricsUrl, calls, lastDone, persisted, posts>>
    /\ UNCHANGED frameTask

(* getModelName settles; the record is complete and getMetricsRemoteUrl    *)
(* is called (its synchronous head runs in the same step)                  *)
Record(i) ==
    /\ MicrotasksDrained
    /\ tasks[i].pc = "record"
    /\ \/ /\ NoFault
          /\ LET out == EnterCall(cachedMetricsUrl, lastDone)
             IN /\ calls' = Append(calls, out.rc)
                /\ cachedMetricsUrl' = out.cache
                /\ lastDone' = IF out.rc.pc = "done" THEN Len(calls) + 1 ELSE lastDone
          /\ SetTask(i, [tasks[i] EXCEPT !.call = Len(calls) + 1, !.pc = "resolve"])
       \/ /\ Fault                             \* getModelName rejects
          /\ SetTask(i, Throw(tasks[i]))
          /\ UNCHANGED <<cachedMetricsUrl, calls, lastDone>>
    /\ UNCHANGED <<persisted, posts>>
    /\ UNCHANGED frameTask

(* `await getMetricsRemoteUrl(...)` resumes: POST when a URL came back;    *)
(* otherwise nothing is written (the local write is commented out) and     *)
(* the file is added to `persisted`                                        *)
Resolved(i) ==
    /\ MicrotasksDrained
    /\ tasks[i].pc = "resolve"
    /\ calls[tasks[i].call].pc = "done"
    /\ LET t == tasks[i]
           url == calls[t.call].result
       IN IF calls[t.call].rejected
          THEN SetTask(i, Throw(t)) /\ UNCHANGED <<persisted, posts>>
          ELSE IF url # NoUrl
          THEN /\ posts' = posts \cup {[key |-> t.key, added |-> t.added, removed |-> t.removed,
                                           url |-> url, task |-> i, late |-> t.key \in t.lateKeys,
                                           failed |-> FALSE]}
               /\ SetTask(i, [t EXCEPT !.pc = "post"])
               /\ UNCHANGED persisted
          ELSE /\ persisted' = persisted \cup {t.key}
               /\ SetTask(i, EndFile(t))
               /\ UNCHANGED posts
    /\ UNCHANGED <<cachedMetricsUrl, calls, lastDone, faults>>
    /\ UNCHANGED frameTask

(* the request of task i for its current file, marked as failed *)
MarkFailed(i) ==
    {IF p.task = i /\ p.key = tasks[i].key THEN [p EXCEPT !.failed = TRUE] ELSE p : p \in posts}

(* postSingleFileRecord returns: the single fetch has settled; a network   *)
(* error or the abort after 5 s is caught there, the answer's status is    *)
(* not looked at                                                           *)
Posted(i) ==
    /\ MicrotasksDrained
    /\ tasks[i].pc = "post"
    /\ \/ NoFault /\ UNCHANGED posts
       \/ Fault /\ posts' = MarkFailed(i)
    /\ persisted' = persisted \cup {tasks[i].key}
    /\ SetTask(i, EndFile(tasks[i]))
    /\ UNCHANGED <<cachedMetricsUrl, calls, lastDone>>
    /\ UNCHANGED frameTask

(* ------------------------------- Spec ---------------------------------- *)
Init ==
    /\ variant = "A"
    /\ services = TRUE
    /\ folders = <<6>>
    /\ policy = [answers |-> {<<>>, <<[isNull |-> FALSE, rules |-> <<RuleStar>>]>>},
                 failures |-> {"notok"}]
    /\ cachedMetricsUrl = Unknown
    /\ calls = <<>>
    /\ lastDone = 0
    /\ faults = 0
    /\ scan = IdleScan
    /\ doc \in {d \in [Keys -> {Missing, <<"a", "">>}] : d["f2"] # Missing}
    /\ originals = [k \in Keys |-> Undef]
    /\ originalPromises = [k \in Keys |-> NoPromise]
    /\ touched = <<>>
    /\ persisted = {}
    /\ tasks = <<>>
    /\ finalized = FALSE
    /\ posts = {}
    /\ writes = {}
    /\ events = 0
    /\ lateDone = {}
    /\ edits = 0
    /\ IdleAux

Next ==
    \/ \E k \in Keys, isDone \in BOOLEAN : OnTextEdit(k, isDone)
    \/ \E k \in Keys : ResolveCapture(k)
    \/ \E k \in Keys : ApplyEdit(k)
    \/ Finalize
    \/ \E i \in DOMAIN tasks : RunMicrotask(i)
    \/ \E i \in DOMAIN tasks : AwaitOrig(i)
    \/ \E i \in DOMAIN tasks : FirstRead(i)
    \/ \E i \in DOMAIN tasks : Reread(i)
    \/ \E i \in DOMAIN tasks : Diff(i)
    \/ \E i \in DOMAIN tasks : Record(i)
    \/ \E i \in DOMAIN tasks : Resolved(i)
    \/ \E i \in DOMAIN tasks : Posted(i)
    \/ \E c \in DOMAIN calls : ResolveToken(c)
    \/ \E c \in DOMAIN calls : ResolveFolder(c)
    \/ \E c \in DOMAIN calls : ResolveBatch(c)

Spec == Init /\ [][Next]_vars

Emitted(k) == {p \in posts \cup writes : p.key = k}
AllTasksDone == \A i \in DOMAIN tasks : tasks[i].pc = "done"

(* C1: at most one record is emitted (POSTed or written) per file key per  *)
(* wrapper instance, whatever events and finalization occur.               *)
C1_AtMostOneRecordPerFile == \A k \in Keys : Cardinality(Emitted(k)) <= 1

(* C2: no record is emitted by work that was scheduled (an isDone event)   *)
(* or started (the finalize flush) when the file was already in the        *)
(* persisted set.                                                          *)
C2_NoRecordAfterPersisted ==
    /\ \A p \in posts \cup writes : ~p.late
    /\ \A i \in DOMAIN tasks : tasks[i].lateKeys = {}
C2_Witness ==
    \E k \in lateDone :
        /\ finalized /\ AllTasksDone
        /\ k \in persisted
        /\ Cardinality(Emitted(k)) = 1

(* C4: every record that was computed and whose file is marked persisted   *)
(* was POSTed (an endpoint resolved) or else written to a local file (no   *)
(* endpoint resolved), never both and never neither.                       *)
C4_RemoteElseLocal ==
    \A k \in persisted :
        /\ (\E p \in posts : p.key = k) \/ (\E w \in writes : w.key = k)
        /\ ~\E p \in posts, w \in writes : p.key = k /\ w.key = k /\ p.task = w.task

(* C5: when the finalize callback has returned, it has processed every     *)
(* file that was touched and not persisted when it started, also when      *)
(* building or emitting the record of one of them failed.                  *)
C5_FlushProcessesAll ==
    \A i \in DOMAIN tasks :
        (tasks[i].kind = "flush" /\ tasks[i].pc = "done") => tasks[i].rest = <<>>

(* C7: under any interleaving of the pipelines of one process at most one  *)
(* getMetricsRemoteUrl call issues policy requests.                        *)
C7_DiscoveryStartedOnce ==
    Cardinality({c \in DOMAIN calls : calls[c].reqs # <<>>}) <= 1

(* C30: the text captured as a file's original is the file's content       *)
(* before the first observed edit was applied, however the capture read    *)
(* and the application of the edit interleave: a file that existed is      *)
(* never captured with its post-edit content.                              *)
C30_OriginalIsPreEditContent ==
    \A k \in Keys :
        (originals[k] # Undef /\ originalPromises[k].before # Missing)
        => originals[k] = originalPromises[k].before

(* C31: per file the steps come in the order capture resolved, then        *)
(* stabilization reads, then diff, then emission: a task is at or past     *)
(* its first stabilization read of a file only when the file's capture     *)
(* read has resolved, and a record is emitted only by a task whose diff    *)
(* of that file has completed, with the counts of that diff.               *)
PastFirstRead == {"read", "reread", "diff", "record", "resolve", "post"}
CaptureBeforeRead ==
    \A i \in DOMAIN tasks :
        tasks[i].pc \in PastFirstRead => originalPromises[tasks[i].key].state = "resolved"
DiffBeforeEmit ==
    \A p \in {q \in (posts' \cup writes') \ (posts \cup writes) : ~q.failed} :
        /\ tasks[p.task].pc = "resolve" /\ tasks[p.task].key = p.key
        /\ p.added = tasks[p.task].added /\ p.removed = tasks[p.task].removed
        /\ p.added + p.removed > 0
C31_StepsInOrder == []CaptureBeforeRead /\ [][DiffBeforeEmit]_vars
C31_Witness ==
    \E p \in posts :
        /\ originals[p.key] = Undef /\ originalPromises[p.key].state = "resolved"
        /\ p.added > 0 /\ tasks[p.task].pc = "done"

C36_FailedPostNotRepeated ==
    \A p \in posts :
        p.failed => /\ p.key \in persisted
                    /\ \A q \in posts : q.key = p.key => q = p

(* ----------------------- computeSingleFileDelta ------------------------ *)
(* SpecDelta: one call of computeSingleFileDelta ("A": lineChangeRecorder  *)
(* .ts, both definitions; "B": part_000) on an original text and on what   *)
(* getStableSnapshot gives (Missing: it rejects), followed by the          *)
(* wrapper's `if (!single) return/continue` and its record literal.        *)
MaxLines == 2

recorderVars == <<variant, services, folders, policy, cachedMetricsUrl, calls, lastDone,
                  faults, scan, wrapperVars>>
IdleRecorder ==
    /\ variant = "A"
    /\ services = TRUE
    /\ folders = <<>>
    /\ policy = [answers |-> {}, failures |-> {}]
    /\ cachedMetricsUrl = Unknown
    /\ calls = <<>>
    /\ lastDone = 0
    /\ faults = 0
    /\ scan = IdleScan
    /\ IdleWrapper
    /\ IdleExtra

DeltaTexts == SeqsUpTo({"a", "b", ""}, MaxLines) \ {<<>>}

(* text.endsWith('\n') on the segments of text.split(/\r?\n/) *)
EndsWithNewline(text) == Len(text) >= 2 /\ text[Len(text)] = ""

(* mutant: the segment count, trailing empty segment included *)
SegmentCount(text) == Len(text)

(* mutant: one segment is always taken off *)
LineCountMinusOne(text) == Len(text) - 1

(* lines = text.split(/\r?\n/).length;                                     *)
(* text.endsWith('\n') ? Math.max(0, lines - 1) : lines                    *)
LineCount(text) ==
    IF EndsWithNewline(text)
    THEN (IF Len(text) - 1 > 0 THEN Len(text) - 1 ELSE 0)
    ELSE Len(text)

(* mutant: a zero delta is not recognised *)
IsZeroDeltaNever(d) == FALSE

(* addedLines === 0 && removedLines === 0 *)
IsZeroDelta(d) == d.addedLines = 0 /\ d.removedLines = 0

DeltaOut(single, diffCalled, path) == [single |-> single, diffCalled |-> diffCalled, path |-> path]

(* the diff path: computeAdditionsAndDeletions, then the zero test *)
DiffPath(original, modified) ==
    LET d == computeAdditionsAndDeletions(original, modified)
    IN IF IsZeroDelta(d) THEN DeltaOut(NoSingle, TRUE, "diff")
       ELSE DeltaOut(Single(d.addedLines, d.removedLines), TRUE, "diff")

(* mutant: a display path that cannot be computed is thrown on *)
FallbackPathRethrows(original, pathOk, diffCalled) ==
    IF original # EmptyText
    THEN (IF pathOk THEN DeltaOut(Single(0, LineCount(original)), diffCalled, "fallback")
                    ELSE DeltaOut(NoSingle, diffCalled, "throw"))
    ELSE DeltaOut(NoSingle, diffCalled, "none")

(* the catch of part_000: the lines of a non-empty original are reported   *)
(* as removed, unless the display path cannot be computed either           *)
FallbackPath(original, pathOk, diffCalled) ==
    IF original # EmptyText /\ pathOk
    THEN DeltaOut(Single(0, LineCount(original)), diffCalled, "fallback")
    ELSE DeltaOut(NoSingle, diffCalled, "none")

computeSingleFileDelta(v, original, modified, diffOk, pathOk) ==
    IF v = "A"
    THEN IF modified = Missing \/ ~pathOk THEN DeltaOut(NoSingle, FALSE, "none")
         ELSE IF ~diffOk THEN DeltaOut(NoSingle, TRUE, "none")
         ELSE DiffPath(original, modified)
    ELSE IF modified = Missing THEN FallbackPath(original, pathOk, FALSE)
         ELSE IF original = EmptyText /\ modified # EmptyText
              THEN DeltaOut(Single(LineCount(modified), 0), FALSE, "created")
         ELSE IF original # EmptyText /\ modified = EmptyText
              THEN DeltaOut(Single(0, LineCount(original)), FALSE, "deleted")
         ELSE IF ~diffOk THEN FallbackPath(original, pathOk, TRUE)
         ELSE DiffPath(original, modified)

(* path.posix.extname(fileName) of the files tried, and snap.languageId *)
Exts == {".ts", ".MD", ".zz", ""}
languageId == "typescript"

(* ext.toLowerCase() *)
ToLowerCase(ext) == IF ext = ".MD" THEN ".md" ELSE ext

(* the extension table of the catch of part_000 *)
ExtLanguage(ext) ==
    CASE ext \in {".ts", ".tsx"} -> "typescript"
      [] ext \in {".js", ".jsx"} -> "javascript"
      [] ext = ".py" -> "python"
      [] ext = ".java" -> "java"
      [] ext = ".go" -> "go"
      [] ext = ".rs" -> "rust"
      [] ext \in {".cpp", ".cc", ".cxx"} -> "cpp"
      [] ext = ".c" -> "c"
      [] ext = ".cs" -> "csharp"
      [] ext = ".php" -> "php"
      [] ext = ".rb" -> "ruby"
      [] ext = ".swift" -> "swift"
      [] ext = ".kt" -> "kotlin"
      [] ext = ".scala" -> "scala"
      [] ext = ".html" -> "html"
      [] ext = ".css" -> "css"
      [] ext \in {".scss", ".sass"} -> "scss"
      [] ext = ".json" -> "json"
      [] ext = ".xml" -> "xml"
      [] ext \in {".yaml", ".yml"} -> "yaml"
      [] ext = ".md" -> "markdown"
      [] ext = ".sh" -> "shellscript"
      [] ext = ".sql" -> "sql"
      [] OTHER -> "plaintext"

(* the language tag of the result: languageId ?? '' of the snapshot, or    *)
(* the table entry of the extension in the catch of part_000               *)
DeltaLanguage(out, ext) ==
    IF ~out.single.some THEN ""
    ELSE IF out.path = "fallback" THEN ExtLanguage(ToLowerCase(ext))
    ELSE languageId

DeltaInit ==
    /\ delta \in {[IdleDelta EXCEPT !.pc = "input", !.variant = v, !.original = o,
                                    !.modified = m, !.diffOk = d, !.pathOk = p, !.ext = e] :
                    v \in {"A", "B"}, o \in DeltaTexts, m \in DeltaTexts \cup {Missing},
                    d \in BOOLEAN, p \in BOOLEAN, e \in Exts}
    /\ sessionStats = createNewSession
    /\ save = IdleSave
    /\ fsOps = <<>>
    /\ tracked = NoTracked
    /\ mgr = NewManager
    /\ IdleRecorder

RunDelta ==
    /\ delta.pc = "input"
    /\ LET out == computeSingleFileDelta(delta.variant, delta.original, delta.modified,
                                         delta.diffOk, delta.pathOk)
       IN delta' = [delta EXCEPT !.pc = "computed", !.single = out.single,
                                 !.diffCalled = out.diffCalled, !.path = out.path,
                                 !.language = DeltaLanguage(out, delta.ext)]
    /\ UNCHANGED <<sessionStats, save, fsOps, tracked, mgr>>
    /\ UNCHANGED recorderVars
    /\ UNCHANGED extraVars

(* if (!single) { return / continue }  record = { ..., added, removed } *)
BuildRecord ==
    /\ delta.pc = "computed"
    /\ delta' = [delta EXCEPT !.pc = "done",
                              !.record = IF delta.single.some THEN delta.single ELSE NoSingle]
    /\ UNCHANGED <<sessionStats, save, fsOps, tracked, mgr>>
    /\ UNCHANGED recorderVars
    /\ UNCHANGED extraVars

DeltaNext ==
    \/ RunDelta
    \/ BuildRecord

SpecDelta == DeltaInit /\ [][DeltaNext]_vars

(* C12: when the stabilized text equals the original and the diff          *)
(* primitive answers, computeSingleFileDelta returns no delta and no       *)
(* record is built for the file.                                           *)
C12_EqualTextsNoRecord ==
    (delta.pc \in {"computed", "done"} /\ delta.modified = delta.original /\ delta.diffOk)
    => (~delta.single.some /\ ~delta.record.some)
C12_Witness ==
    /\ delta.pc = "done" /\ delta.variant = "B" /\ delta.diffOk /\ delta.diffCalled
    /\ delta.modified = delta.original /\ delta.original = <<"a", "">>
    /\ ~delta.record.some

(* C13: in part_000, when exactly one of original and modified is empty    *)
(* the diff primitive is not called and the line count of the non-empty    *)
(* text (segments, less one if it ends with a line break; at least 1) is   *)
(* reported as added (created) or removed (deleted), the other side 0.     *)
OneSideEmpty == (delta.original = EmptyText) # (delta.modified = EmptyText)
NonEmptySide == IF delta.original = EmptyText THEN delta.modified ELSE delta.original
C13_OneSideEmptyCountsLines ==
    (delta.pc \in {"computed", "done"} /\ delta.variant = "B" /\ delta.modified # Missing
        /\ OneSideEmpty)
    => LET n == Len(NonEmptySide) - (IF EndsWithNewline(NonEmptySide) THEN 1 ELSE 0)
       IN /\ ~delta.diffCalled
          /\ n >= 1
          /\ delta.single = IF delta.original = EmptyText THEN Single(n, 0) ELSE Single(0, n)
C13_Witness ==
    /\ delta.pc = "computed" /\ delta.variant = "B"
    /\ delta.original = EmptyText /\ delta.modified = <<"a", "">>
    /\ delta.single = Single(1, 0)

(* C14: every record built has added >= 0, removed >= 0 and                *)
(* added + removed > 0, on the diff, created, deleted and fallback paths.  *)
C14_RecordIsNonZero ==
    delta.record.some =>
        /\ delta.record.added >= 0
        /\ delta.record.removed >= 0
        /\ delta.record.added + delta.record.removed > 0
C14_Witness ==
    /\ delta.pc = "done" /\ delta.path = "fallback" /\ delta.diffCalled
    /\ delta.record = Single(0, 1)

(* getStableSnapshot or computeAdditionsAndDeletions threw in part_000 *)
ReadOrDiffThrew ==
    /\ delta.pc \in {"computed", "done"} /\ delta.variant = "B"
    /\ (delta.modified = Missing \/ (delta.diffCalled /\ ~delta.diffOk))

(* C32 as stated: in part_000, when the stabilization read or the diff     *)
(* throws, a non-empty original always gives added = 0 and removed = its   *)
(* line count, and an empty original gives no result.                      *)
C32_FallbackForEveryOriginal ==
    ReadOrDiffThrew =>
        /\ delta.path # "throw"
        /\ IF delta.original # EmptyText
           THEN delta.single = Single(0, LineCount(delta.original))
           ELSE ~delta.single.some

(* C32: in part_000, when the stabilization read or the diff throws, a     *)
(* non-empty original whose display path can be computed gives added = 0,  *)
(* removed = its line count and the language of the file extension; an     *)
(* empty original, or a display path that cannot be computed, gives no     *)
(* result; the function does not throw.                                    *)
C32_FallbackWhenPathKnown ==
    ReadOrDiffThrew =>
        /\ delta.path # "throw"
        /\ IF delta.original # EmptyText /\ delta.pathOk
           THEN /\ delta.single = Single(0, LineCount(delta.original))
                /\ delta.language = ExtLanguage(ToLowerCase(delta.ext))
           ELSE ~delta.single.some
C32_Witness ==
    /\ delta.pc = "done" /\ delta.variant = "B" /\ delta.diffCalled /\ ~delta.diffOk
    /\ delta.original = <<"a", "">> /\ delta.modified = <<"b", "b">> /\ delta.ext = ".MD"
    /\ delta.record = Single(0, 1) /\ delta.language = "markdown"


(* ----------------------- AgentFileChangeTracker ------------------------ *)
(* SpecTracker: one AgentFileChangeTracker. A content is the sequence of   *)
(* its segments as split('\n') gives them (EmptyText is ''), or Undef      *)
(* when the argument is not given.                                         *)
MaxTracks == 2
MaxSaves == 1
MaxExact == 1

Contents == {Undef, EmptyText, <<"a", "b">>, <<"a", "b", "">>, <<"c", "d", "e">>}
Operations == {"add", "delete", "update"}
FilePaths == {"/w/f1", "/w/f2"}
SessionIds == {"s1"}

(* `if (content)`: undefined and '' are falsy *)
Truthy(content) == content # Undef /\ content # EmptyText

LineStats(a, r) == [addedLines |-> a, removedLines |-> r]

RECURSIVE CountChanged(_, _, _)
CountChanged(oldLines, newLines, i) ==
    IF i > Len(oldLines) \/ i > Len(newLines) THEN 0
    ELSE (IF oldLines[i] # newLines[i] THEN 1 ELSE 0) + CountChanged(oldLines, newLines, i + 1)

(* mutant: changed lines of the common part are counted as well when the   *)
(* line counts differ                                                      *)
calculateLineDiffByContent(oldContent, newContent) ==
    LET oldLineCount == Len(oldContent)
        newLineCount == Len(newContent)
        changedLines == CountChanged(oldContent, newContent, 1)
    IN IF newLineCount > oldLineCount
       THEN LineStats(newLineCount - oldLineCount + changedLines, changedLines)
       ELSE IF oldLineCount > newLineCount
       THEN LineStats(changedLines, oldLineCount - newLineCount + changedLines)
       ELSE LineStats(changedLines, changedLines)

calculateLineDiff(oldContent, newContent) ==
    LET oldLineCount == Len(oldContent)
        newLineCount == Len(newContent)
    IN IF newLineCount > oldLineCount THEN LineStats(newLineCount - oldLineCount, 0)
       ELSE IF oldLineCount > newLineCount THEN LineStats(0, oldLineCount - newLineCount)
       ELSE LET changedLines == CountChanged(oldContent, newContent, 1)
            IN LineStats(changedLines, changedLines)

(* the counts trackFileChange computes before it builds fileStats *)
ComputeLines(operation, oldContent, newContent) ==
    IF operation = "add"
    THEN (IF Truthy(newContent) THEN LineStats(Len(newContent), 0) ELSE LineStats(0, 0))
    ELSE IF operation = "delete"
    THEN (IF Truthy(oldContent) THEN LineStats(0, Len(oldContent)) ELSE LineStats(0, 0))
    ELSE IF operation = "update" /\ Truthy(oldContent) /\ Truthy(newContent)
    THEN calculateLineDiff(oldContent, newContent)
    ELSE LineStats(0, 0)

(* mutant: the running totals are not updated *)
PushStatsNoTotals(stats, fileStats) ==
    [stats EXCEPT !.fileChanges = Append(@, fileStats), !.totalFilesChanged = @ + 1]

(* fileChanges.push(fileStats); totalFilesChanged++; totals += ... *)
PushStats(stats, fileStats) ==
    [stats EXCEPT !.fileChanges = Append(@, fileStats),
                  !.totalFilesChanged = @ + 1,
                  !.totalAddedLines = @ + fileStats.addedLines,
                  !.totalRemovedLines = @ + fileStats.removedLines]

FileStats(filePath, operation, lines) ==
    [filePath |-> filePath, addedLines |-> lines.addedLines,
     removedLines |-> lines.removedLines, operation |-> operation]

TrackerCallsLeft == Len(sessionStats.fileChanges) + (IF tracked.call = "reset" THEN 1 ELSE 0) < MaxTracks

trackFileChange(filePath, operation, oldContent, newContent) ==
    /\ TrackerCallsLeft
    /\ LET lines == ComputeLines(operation, oldContent, newContent)
       IN /\ sessionStats' = PushStats(sessionStats, FileStats(filePath, operation, lines))
          /\ tracked' = [call |-> "trackFileChange", operation |-> operation,
                         oldContent |-> oldContent, newContent |-> newContent,
                         addedLines |-> lines.addedLines, removedLines |-> lines.removedLines,
                         before |-> sessionStats, returned |-> tracked.returned]
    /\ UNCHANGED <<delta, save, fsOps, mgr>>
    /\ UNCHANGED recorderVars
    /\ UNCHANGED extraVars

trackFileChangeWithExactLines(filePath, operation, addedLines, removedLines) ==
    /\ TrackerCallsLeft
    /\ sessionStats' = PushStats(sessionStats,
                                 FileStats(filePath, operation, LineStats(addedLines, removedLines)))
    /\ tracked' = [call |-> "trackFileChangeWithExactLines", operation |-> operation,
                   oldContent |-> Undef, newContent |-> Undef,
                   addedLines |-> addedLines, removedLines |-> removedLines,
                   before |-> sessionStats, returned |-> tracked.returned]
    /\ UNCHANGED <<delta, save, fsOps, mgr>>
    /\ UNCHANGED recorderVars
    /\ UNCHANGED extraVars

(* this.sessionStats is replaced by a new object with a new array: a       *)
(* value returned earlier keeps the old array                              *)
KeepsOldArray(returned) ==
    IF returned.alias
    THEN [returned EXCEPT !.alias = FALSE, !.fileChanges = sessionStats.fileChanges]
    ELSE returned

resetSession(sessionId) ==
    /\ tracked.call # "reset"
    /\ sessionStats' = [createNewSession EXCEPT !.sessionId = sessionId]
    /\ tracked' = [NoTracked EXCEPT !.call = "reset", !.before = sessionStats,
                                    !.returned = KeepsOldArray(tracked.returned)]
    /\ UNCHANGED <<delta, save, fsOps, mgr>>
    /\ UNCHANGED recorderVars
    /\ UNCHANGED extraVars

StatsDir == "<workspaceRoot>/.vscode/agent-stats"

(* mutant: the file is named after the session id alone *)
StatsFileBare(sessionId) == [dir |-> StatsDir, name |-> <<sessionId, ".json">>]

(* URI.joinPath(statsDir, `agent-session-${sessionId}.json`) *)
StatsFile(sessionId) == [dir |-> StatsDir, name |-> <<"agent-session-", sessionId, ".json">>]

FsOp(op, target) == [op |-> op, target |-> target]

(* saveSessionStats up to its first await *)
saveSessionStats ==
    /\ save.pc = "idle"
    /\ save.calls < MaxSaves
    /\ LET sv == [save EXCEPT !.calls = @ + 1, !.changesAtStart = Len(sessionStats.fileChanges),
                              !.mark = Len(fsOps), !.detached = FALSE,
                              !.sessionId = sessionStats.sessionId,
                              !.mkdirFailed = FALSE, !.writeFailed = FALSE, !.logged = FALSE]
       IN IF sessionStats.totalFilesChanged = 0 \/ ~save.hasFolder
          THEN save' = sv /\ UNCHANGED fsOps
          ELSE /\ save' = [sv EXCEPT !.pc = "mkdir"]
               /\ fsOps' = Append(fsOps, FsOp("createDirectory", [dir |-> StatsDir, name |-> <<>>]))
    /\ UNCHANGED <<delta, sessionStats, tracked, mgr>>
    /\ UNCHANGED recorderVars
    /\ UNCHANGED extraVars

(* createDirectory settles (a rejection is ignored); writeFile is called *)
CreateDirectorySettled ==
    /\ save.pc = "mkdir"
    /\ LET id == IF save.detached THEN save.sessionId ELSE sessionStats.sessionId
       IN /\ save' = [save EXCEPT !.pc = "write", !.sessionId = id]
          /\ fsOps' = Append(fsOps, FsOp("writeFile", StatsFile(id)))
    /\ UNCHANGED <<delta, sessionStats, tracked, mgr>>
    /\ UNCHANGED recorderVars
    /\ UNCHANGED extraVars

(* writeFile settles (a rejection is logged); saveSessionStats returns *)
WriteFileSettled ==
    /\ save.pc = "write"
    /\ save' = [save EXCEPT !.pc = "idle"]
    /\ UNCHANGED <<delta, sessionStats, fsOps, tracked, mgr>>
    /\ UNCHANGED recorderVars
    /\ UNCHANGED extraVars

TrackerInit ==
    /\ delta = IdleDelta
    /\ sessionStats = createNewSession
    /\ save \in {[IdleSave EXCEPT !.hasFolder = b] : b \in BOOLEAN}
    /\ fsOps = <<>>
    /\ tracked = NoTracked
    /\ mgr = NewManager
    /\ IdleRecorder

TrackerNext ==
    \/ \E p \in FilePaths, op \in Operations, o \in Contents, n \in Contents :
          trackFileChange(p, op, o, n)
    \/ \E p \in FilePaths, op \in Operations, a \in 0..MaxExact, r \in 0..MaxExact :
          trackFileChangeWithExactLines(p, op, a, r)
    \/ \E id \in SessionIds : resetSession(id)
    \/ saveSessionStats
    \/ CreateDirectorySettled
    \/ WriteFileSettled

SpecTracker == TrackerInit /\ [][TrackerNext]_vars

TrackCalls == {"trackFileChange", "trackFileChangeWithExactLines"}

(* C15: a trackFileChange* call whose added and removed counts are both    *)
(* zero leaves fileChanges and totalFilesChanged as they were.             *)
C15_NoOpNotRecorded ==
    (tracked.call \in TrackCalls /\ tracked.addedLines = 0 /\ tracked.removedLines = 0)
    => /\ sessionStats.fileChanges = tracked.before.fileChanges
       /\ sessionStats.totalFilesChanged = tracked.before.totalFilesChanged

RECURSIVE SumOver(_, _, _)
SumOver(changes, field, j) ==
    IF j > Len(changes) THEN 0 ELSE changes[j][field] + SumOver(changes, field, j + 1)

(* C16: after any sequence of track and reset calls the totals equal the   *)
(* sums over fileChanges and totalFilesChanged equals its length.          *)
C16_TotalsMatchFileChanges ==
    /\ sessionStats.totalAddedLines = SumOver(sessionStats.fileChanges, "addedLines", 1)
    /\ sessionStats.totalRemovedLines = SumOver(sessionStats.fileChanges, "removedLines", 1)
    /\ sessionStats.totalFilesChanged = Len(sessionStats.fileChanges)
C16_Witness ==
    /\ Len(sessionStats.fileChanges) = 2
    /\ sessionStats.sessionId \in SessionIds
    /\ sessionStats.totalAddedLines = 4
    /\ sessionStats.totalRemovedLines = 3

(* C17: an 'update' that replaces every old line by a different line and   *)
(* appends further lines counts every new line as added and every old      *)
(* line as removed (2 lines -> 3 lines, none in common: +3, -2).           *)
AllReplacedAndAppended(old, new) ==
    /\ Truthy(old) /\ Truthy(new)
    /\ Len(new) > Len(old)
    /\ \A i \in 1..Len(old) : old[i] # new[i]
C17_UpdateCountsAllLines ==
    (tracked.call = "trackFileChange" /\ tracked.operation = "update"
        /\ AllReplacedAndAppended(tracked.oldContent, tracked.newContent))
    => /\ tracked.addedLines = Len(tracked.newContent)
       /\ tracked.removedLines = Len(tracked.oldContent)
       /\ sessionStats.totalAddedLines = tracked.before.totalAddedLines + Len(tracked.newContent)
       /\ sessionStats.totalRemovedLines = tracked.before.totalRemovedLines + Len(tracked.oldContent)

(* C18: 'add' records the lines of the new content, the empty segment      *)
(* after a final line break not counted, and 0 removed; 'delete' records   *)
(* the same of the old content as removed and 0 added.                     *)
LinesOf(content) == Len(content) - (IF EndsWithNewline(content) THEN 1 ELSE 0)
C18_AddCountsLines ==
    /\ (tracked.call = "trackFileChange" /\ tracked.operation = "add" /\ Truthy(tracked.newContent))
       => (tracked.addedLines = LinesOf(tracked.newContent) /\ tracked.removedLines = 0)
    /\ (tracked.call = "trackFileChange" /\ tracked.operation = "delete" /\ Truthy(tracked.oldContent))
       => (tracked.removedLines = LinesOf(tracked.oldContent) /\ tracked.addedLines = 0)

(* C19: a saveSessionStats call made when no change was tracked since the  *)
(* tracker was created or reset calls neither createDirectory nor          *)
(* writeFile; one made with a change tracked and a workspace folder calls  *)
(* writeFile exactly once, for agent-session-{sessionId}.json under        *)
(* <workspace-root>/.vscode/agent-stats.                                   *)
OpsOfSave == SubSeq(fsOps, save.mark + 1, Len(fsOps))
WritesOfSave == SelectSeq(OpsOfSave, LAMBDA o : o.op = "writeFile")
RECURSIVE StatsAfter(_)
StatsAfter(changes) ==
    IF changes = <<>> THEN createNewSession
    ELSE PushStats(StatsAfter(SubSeq(changes, 1, Len(changes) - 1)), changes[Len(changes)])

SaveInit ==
    /\ sessionStats \in {StatsAfter(c) :
          c \in SeqsUpTo({FileStats(f, op, LineStats(a, 0)) :
                            f \in FilePaths, op \in {"add", "update"}, a \in 0..1}, MaxTracks)}
    /\ save \in {[IdleSave EXCEPT !.hasFolder = b] : b \in BOOLEAN}
    /\ delta = IdleDelta
    /\ fsOps = <<>>
    /\ tracked = NoTracked
    /\ mgr = NewManager
    /\ IdleRecorder

(* mutant: a rejected createDirectory ends the call in the outer catch *)
CreateDirectoryFailedAborts ==
    /\ save.pc = "mkdir"
    /\ save' = [save EXCEPT !.pc = "idle", !.mkdirFailed = TRUE, !.logged = TRUE]
    /\ UNCHANGED <<delta, sessionStats, fsOps, tracked, mgr>>
    /\ UNCHANGED recorderVars
    /\ UNCHANGED extraVars

(* createDirectory rejects: the inner catch is empty, writeFile is called *)
CreateDirectoryFailed ==
    /\ save.pc = "mkdir"
    /\ save' = [save EXCEPT !.pc = "write", !.mkdirFailed = TRUE]
    /\ fsOps' = Append(fsOps, FsOp("writeFile", StatsFile(sessionStats.sessionId)))
    /\ UNCHANGED <<delta, sessionStats, tracked, mgr>>
    /\ UNCHANGED recorderVars
    /\ UNCHANGED extraVars

(* writeFile rejects: the outer catch logs the error and the call returns *)
WriteFileFailed ==
    /\ save.pc = "write"
    /\ save' = [save EXCEPT !.pc = "idle", !.writeFailed = TRUE, !.logged = TRUE]
    /\ UNCHANGED <<delta, sessionStats, fsOps, tracked, mgr>>
    /\ UNCHANGED recorderVars
    /\ UNCHANGED extraVars

SaveNext ==
    \/ saveSessionStats
    \/ CreateDirectorySettled
    \/ CreateDirectoryFailed
    \/ WriteFileSettled
    \/ WriteFileFailed

SpecSave == SaveInit /\ [][SaveNext]_vars

SaveReturned == save.calls > 0 /\ save.pc = "idle"

(* C37: saveSessionStats does not reject; after a rejected createDirectory *)
(* writeFile is still called; a rejected writeFile is logged and the call  *)
(* returns; without a workspace folder nothing is created or written; no   *)
(* step of the call changes the tracker's session stats.                   *)
SaveSwallowsFailures ==
    /\ ~save.rejected
    /\ save.mkdirFailed => (save.pc \in {"write", "idle"} /\ Len(WritesOfSave) = 1)
    /\ save.writeFailed => (save.logged /\ SaveReturned)
    /\ save.logged => save.writeFailed
    /\ (save.calls > 0 /\ ~save.hasFolder) => (SaveReturned /\ fsOps = <<>>)
C37_SaveNeverRejects == []SaveSwallowsFailures /\ [][sessionStats' = sessionStats]_vars
C37_Witness ==
    /\ SaveReturned /\ save.mkdirFailed /\ save.writeFailed /\ save.logged
    /\ Len(fsOps) = 2 /\ sessionStats.totalFilesChanged = 2

(* ------------------------- AgentSessionManager ------------------------- *)
(* SpecManager: one AgentSessionManager (part_001). sessionStats is the    *)
(* state of its current tracker while mgr.currentTracker holds. One        *)
(* endCurrentSession call is in flight at a time.                          *)
MaxManagerCalls == 3

ManagerCallsLeft == mgr.ops < MaxManagerCalls

(* a tracker replaced while its saveSessionStats is in flight keeps its id *)
Detach == IF save.pc # "idle" /\ ~save.detached
          THEN [save EXCEPT !.detached = TRUE, !.sessionId = sessionStats.sessionId]
          ELSE save

(* return true (the body of isAgentMode does not read the manager) *)
isAgentMode(m) == TRUE

(* new AgentFileChangeTracker(...) when there is none yet *)
getCurrentSessionTracker ==
    /\ ManagerCallsLeft
    /\ ~mgr.currentTracker
    /\ mgr' = [mgr EXCEPT !.currentTracker = TRUE, !.ops = @ + 1]
    /\ sessionStats' = createNewSession
    /\ save' = Detach
    /\ UNCHANGED <<delta, fsOps, tracked>>
    /\ UNCHANGED recorderVars
    /\ UNCHANGED extraVars

(* startNewSession() called without a session id *)
NoId == "<no id>"

(* the fields after startNewSession(sessionId) *)
Started(m, sessionId) ==
    [m EXCEPT !.sessionId = IF sessionId = NoId THEN "generated" ELSE sessionId,
              !.currentTracker = TRUE, !.isAgentModeActive = TRUE]

startNewSession(sessionId) ==
    /\ ManagerCallsLeft
    /\ mgr' = [Started(mgr, sessionId) EXCEPT !.lastOp = "start", !.ops = @ + 1]
    /\ sessionStats' = [createNewSession EXCEPT !.sessionId = mgr'.sessionId]
    /\ save' = Detach
    /\ UNCHANGED <<delta, fsOps, tracked>>
    /\ UNCHANGED recorderVars
    /\ UNCHANGED extraVars

setAgentMode(isAgent) ==
    /\ ManagerCallsLeft
    /\ LET m == [mgr EXCEPT !.isAgentModeActive = isAgent,
                            !.lastOp = IF isAgent THEN "setTrue" ELSE "setFalse",
                            !.ops = @ + 1]
       IN IF isAgent /\ ~mgr.currentTracker
          THEN /\ mgr' = Started(m, NoId)
               /\ sessionStats' = [createNewSession EXCEPT !.sessionId = mgr'.sessionId]
               /\ save' = Detach
          ELSE /\ mgr' = m
               /\ UNCHANGED <<sessionStats, save>>
    /\ UNCHANGED <<delta, fsOps, tracked>>
    /\ UNCHANGED recorderVars
    /\ UNCHANGED extraVars

(* currentTracker = null; isAgentModeActive = false; sessionId = null *)
Cleared(m) ==
    [m EXCEPT !.currentTracker = FALSE, !.isAgentModeActive = FALSE, !.sessionId = "null",
              !.pc = "idle", !.lastOp = "end"]

(* endCurrentSession up to its await: with a tracker and agent mode on it  *)
(* prints the stats and calls saveSessionStats; otherwise it clears the    *)
(* fields at once                                                          *)
endCurrentSession ==
    /\ ManagerCallsLeft
    /\ mgr.pc = "idle"
    /\ save.pc = "idle"
    /\ IF mgr.currentTracker /\ mgr.isAgentModeActive
       THEN /\ mgr' = [mgr EXCEPT !.pc = "ending", !.ops = @ + 1,
                                  !.endChanges = Len(sessionStats.fileChanges),
                                  !.endSaved = TRUE, !.endEvents = 0]
            /\ LET sv == [save EXCEPT !.calls = @ + 1,
                                      !.changesAtStart = Len(sessionStats.fileChanges),
                                      !.mark = Len(fsOps), !.detached = FALSE,
                                      !.sessionId = sessionStats.sessionId]
               IN IF sessionStats.totalFilesChanged = 0 \/ ~save.hasFolder
                  THEN save' = sv /\ UNCHANGED fsOps
                  ELSE /\ save' = [sv EXCEPT !.pc = "mkdir"]
                       /\ fsOps' = Append(fsOps, FsOp("createDirectory",
                                                      [dir |-> StatsDir, name |-> <<>>]))
       ELSE /\ mgr' = [Cleared(mgr) EXCEPT
                          !.ops = @ + 1,
                          !.endChanges = IF mgr.currentTracker
                                         THEN Len(sessionStats.fileChanges) ELSE 0,
                          !.endSaved = FALSE, !.endEvents = 0]
            /\ UNCHANGED <<save, fsOps>>
    /\ UNCHANGED <<delta, sessionStats, tracked>>
    /\ UNCHANGED recorderVars
    /\ UNCHANGED extraVars

(* `await saveSessionStats()` resumes: sendSessionEndTelemetry (a no-op    *)
(* without a tracker), then the fields are cleared                         *)
SessionEnded ==
    /\ mgr.pc = "ending"
    /\ save.pc = "idle"
    /\ mgr' = [Cleared(mgr) EXCEPT !.sessionEnds = IF mgr.currentTracker THEN @ + 1 ELSE @,
                                   !.endEvents = IF mgr.currentTracker THEN 1 ELSE 0]
    /\ UNCHANGED <<delta, sessionStats, save, fsOps, tracked>>
    /\ UNCHANGED recorderVars
    /\ UNCHANGED extraVars

ManagerInit ==
    /\ delta = IdleDelta
    /\ sessionStats = createNewSession
    /\ save \in {[IdleSave EXCEPT !.hasFolder = b] : b \in BOOLEAN}
    /\ fsOps = <<>>
    /\ tracked = NoTracked
    /\ mgr = NewManager
    /\ IdleRecorder

ManagerNext ==
    \/ getCurrentSessionTracker
    \/ \E id \in SessionIds \cup {NoId} : startNewSession(id)
    \/ \E b \in BOOLEAN : setAgentMode(b)
    \/ endCurrentSession
    \/ SessionEnded
    \/ CreateDirectorySettled
    \/ WriteFileSettled
    \/ mgr.currentTracker /\ \E op \in {"add", "update"} :
          trackFileChange("/w/f1", op, Undef, <<"a", "b">>)

SpecManager == ManagerInit /\ [][ManagerNext]_vars

(* C20: isAgentMode() is false on a new manager, true after                *)
(* startNewSession() or setAgentMode(true), false after                    *)
(* setAgentMode(false) or endCurrentSession().                             *)
C20_IsAgentModeReflectsState ==
    mgr.pc = "idle" => (isAgentMode(mgr) <=> mgr.lastOp \in {"start", "setTrue"})

(* C21: an endCurrentSession call made while the manager holds a tracker   *)
(* with at least one tracked change calls saveSessionStats and sends       *)
(* exactly one agentSessionEnd event before it clears the tracker, also    *)
(* for a tracker made by getCurrentSessionTracker() alone and after        *)
(* setAgentMode(false).                                                    *)
C21_EndSavesAndReports ==
    (mgr.pc = "idle" /\ mgr.lastOp = "end" /\ mgr.endChanges > 0)
    => (mgr.endSaved /\ mgr.endEvents = 1)

(* ------------------- CreateFileTool and EditFileResult ----------------- *)
(* SpecTools: the tools that track file changes. mgr and sessionStats are  *)
(* the manager held by AgentSessionSingleton and its tracker; tools holds  *)
(* the manager that an EditFileResult constructs for itself. One           *)
(* EditFileResult is rendered at a time, one file of props.files a step.   *)
MaxFiles == 2
MaxRenders == 2
MaxCreates == 1

EditedFile(operation, before, after) ==
    {[operation |-> operation, before |-> before, after |-> after, error |-> e,
      isNotebook |-> nb, newDiagnostics |-> d, readOk |-> ok] :
        e \in BOOLEAN, nb \in BOOLEAN, d \in BOOLEAN, ok \in BOOLEAN}

(* the files an edit tool reports, with the content before and after the   *)
(* edit; readOk: openTextDocumentAndSnapshot answers; newDiagnostics:      *)
(* getNewDiagnostics is consulted and finds some                           *)
EditedFiles ==
    EditedFile("add", Undef, <<"a", "b">>)
        \cup EditedFile("update", <<"a", "b">>, <<"a", "c">>)
        \cup EditedFile("update", <<"a", "b">>, <<"a", "b", "c">>)
        \cup EditedFile("delete", <<"a", "b">>, Undef)

CreatedContents == {EmptyText, <<"a", "b">>, <<"a", "b", "">>}

toolsFrame == <<delta, tracked, session, snap, recorderVars>>

(* lines.length, less the empty segment after a final line break (min 1) *)
CreatedLines(content) ==
    IF EndsWithNewline(content)
    THEN (IF Len(content) - 1 > 1 THEN Len(content) - 1 ELSE 1)
    ELSE Len(content)

(* CreateFileTool.trackNewFileCreation: the singleton manager (made on the *)
(* first call), its tracker (made on the first call), one 'add' change     *)
trackNewFileCreation(content) ==
    /\ tools.creates < MaxCreates
    /\ LET manager == IF tools.instance THEN mgr ELSE NewManager
           stats == IF manager.currentTracker THEN sessionStats ELSE createNewSession
       IN /\ isAgentMode(manager)
          /\ mgr' = [manager EXCEPT !.currentTracker = TRUE]
          /\ sessionStats' = PushStats(stats, FileStats("/w/f1", "add",
                                                        LineStats(CreatedLines(content), 0)))
    /\ tools' = [tools EXCEPT !.instance = TRUE, !.creates = @ + 1, !.allTracked = @ + 1]
    /\ UNCHANGED <<save, fsOps>>
    /\ UNCHANGED toolsFrame

(* new EditFileResult(props, ...): this.sessionManager = new AgentSessionManager(...) *)
NewEditFileResult ==
    /\ tools.pc \in {"idle", "done"}
    /\ tools.renders < MaxRenders
    /\ tools' = [tools EXCEPT !.pc = "files", !.tracker = FALSE, !.stats = createNewSession,
                              !.processed = 0, !.edited = 0, !.printed = FALSE,
                              !.saved = FALSE, !.savedChanges = 0, !.trackedAtSave = 0,
                              !.renderTracked = 0, !.renders = @ + 1, !.last = NoFile]
    /\ UNCHANGED <<sessionStats, save, fsOps, mgr>>
    /\ UNCHANGED toolsFrame

(* one turn of `for (const file of this.props.files)` *)
RenderFile(file) ==
    /\ tools.pc = "files"
    /\ tools.processed < MaxFiles
    /\ IF file.error
       THEN tools' = [tools EXCEPT !.processed = @ + 1,
                                   !.last = [NoFile EXCEPT !.operation = file.operation,
                                                           !.before = file.before,
                                                           !.after = file.after]]
       ELSE LET stats == IF tools.tracker THEN tools.stats ELSE createNewSession
                newContent == IF file.operation \in {"add", "update"} /\ file.readOk
                              THEN file.after ELSE Undef
                lines == ComputeLines(file.operation, Undef, newContent)
                diagnostics == file.newDiagnostics /\ ~file.isNotebook
            IN /\ isAgentMode(mgr)
               /\ tools' = [tools EXCEPT
                     !.tracker = TRUE,
                     !.stats = PushStats(stats, FileStats("/w/f1", file.operation, lines)),
                     !.processed = @ + 1,
                     !.edited = IF diagnostics THEN @ ELSE @ + 1,
                     !.renderTracked = @ + 1,
                     !.allTracked = @ + 1,
                     !.last = [operation |-> file.operation, before |-> file.before,
                               after |-> file.after, tracked |-> TRUE,
                               addedLines |-> lines.addedLines,
                               removedLines |-> lines.removedLines]]
    /\ UNCHANGED <<sessionStats, save, fsOps, mgr>>
    /\ UNCHANGED toolsFrame

(* after the loop: with a successfully edited file and a changed file in   *)
(* the element's own tracker, printSessionStats and saveSessionStats (to   *)
(* its first await)                                                        *)
RenderSummary ==
    /\ tools.pc = "files"
    /\ save.pc = "idle"
    /\ LET stats == IF tools.tracker THEN tools.stats ELSE createNewSession
       IN IF tools.edited > 0 /\ isAgentMode(mgr) /\ stats.totalFilesChanged > 0
          THEN /\ tools' = [tools EXCEPT !.pc = "saving", !.tracker = TRUE, !.stats = stats,
                                         !.printed = TRUE, !.saved = TRUE,
                                         !.savedChanges = Len(stats.fileChanges),
                                         !.trackedAtSave = tools.allTracked]
               /\ LET sv == [save EXCEPT !.calls = @ + 1,
                                         !.changesAtStart = Len(stats.fileChanges),
                                         !.mark = Len(fsOps), !.detached = TRUE,
                                         !.sessionId = stats.sessionId]
                  IN IF ~save.hasFolder
                     THEN save' = sv /\ UNCHANGED fsOps
                     ELSE /\ save' = [sv EXCEPT !.pc = "mkdir"]
                          /\ fsOps' = Append(fsOps, FsOp("createDirectory",
                                                         [dir |-> StatsDir, name |-> <<>>]))
          ELSE /\ tools' = [tools EXCEPT !.pc = "done",
                                         !.tracker = @ \/ tools.edited > 0,
                                         !.stats = stats]
               /\ UNCHANGED <<save, fsOps>>
    /\ UNCHANGED <<sessionStats, mgr>>
    /\ UNCHANGED toolsFrame

(* `await tracker.saveSessionStats()` resumes and render returns *)
RenderReturns ==
    /\ tools.pc = "saving"
    /\ save.pc = "idle"
    /\ tools' = [tools EXCEPT !.pc = "done"]
    /\ UNCHANGED <<sessionStats, save, fsOps, mgr>>
    /\ UNCHANGED toolsFrame

ToolsInit ==
    /\ delta = IdleDelta
    /\ sessionStats = createNewSession
    /\ save \in {[IdleSave EXCEPT !.hasFolder = b] : b \in BOOLEAN}
    /\ fsOps = <<>>
    /\ tracked = NoTracked
    /\ mgr = NewManager
    /\ IdleRecorder

ToolsNext ==
    \/ \E content \in CreatedContents : trackNewFileCreation(content)
    \/ NewEditFileResult
    \/ \E file \in EditedFiles : RenderFile(file)
    \/ RenderSummary
    \/ CreateDirectorySettled
    \/ WriteFileSettled
    \/ RenderReturns

SpecTools == ToolsInit /\ [][ToolsNext]_vars

(* C22: the change recorded by CreateFileTool.trackNewFileCreation and the *)
(* changes recorded by EditFileResult.render go to one tracker: the stats  *)
(* an EditFileResult prints and saves contain every change tracked so far  *)
(* by any tool.                                                            *)
C22_SavedStatsHoldAllChanges ==
    tools.saved => tools.savedChanges = tools.trackedAtSave

(* C23: for an 'update' EditFileResult.render records the line difference  *)
(* between the content before and the content after the edit: an update    *)
(* that changes at least one line is recorded with                         *)
(* addedLines + removedLines > 0.                                          *)
C23_UpdateRecordsLineDifference ==
    (tools.last.tracked /\ tools.last.operation = "update"
        /\ tools.last.before # tools.last.after)
    => tools.last.addedLines + tools.last.removedLines > 0

(* C24: a render in which at least one file change was tracked has called  *)
(* printSessionStats and saveSessionStats when it returns, also when every *)
(* edited file produced new diagnostics.                                   *)
C24_TrackedRenderPrintsAndSaves ==
    (tools.pc = "done" /\ tools.renderTracked > 0) => (tools.printed /\ tools.saved)

(* ------------------- the session-end wrapper (part_000) ---------------- *)
(* SpecSession: one wrapper of part_000. Text-edit events start capture    *)
(* reads; nothing is emitted until finishSession (processAccumulatedChanges) *)
(* is called, which resolves the endpoint and walks accumulatedChanges.    *)
(* The endpoint lookup of the process has been made before (the module's   *)
(* cache holds a URL or "none"), so getMetricsRemoteUrl answers from it.   *)
(* A run is one finishSession call: pc is the await it is suspended at     *)
(* ("resolve", "fallback", "read", "reread", "post") or "done"; idx is the *)
(* position of its Map iterator; missed (set when it returns) are the      *)
(* touched files with a non-zero delta that it did not POST.               *)
MaxFinish == 2

NewRun == [pc |-> "resolve", call |-> 0, url |-> NoUrl, idx |-> 0, key |-> "",
           original |-> Undef, last |-> Undef, tries |-> 0, missed |-> {}]

sessionFrame == <<variant, services, folders, policy, scan, delta, sessionStats, save, fsOps,
                  tracked, mgr, tools, snap, persisted, tasks, writes, lateDone>>

(* the state of the capture read of a file, as an event for it finds it *)
CaptureState(k) ==
    IF originalPromises[k].state # "resolved" THEN originalPromises[k].state
    ELSE IF k \in session.failed THEN "failed" ELSE "captured"

(* the spy's part callback, for a ChatResponseTextEditPart *)
SessionTextEdit(k, isDone) ==
    /\ ~finalized
    /\ events < MaxEvents
    /\ k = "f1" \/ "f1" \in Range(touched)
    /\ events' = events + 1
    /\ touched' = IF k \in Range(touched) THEN touched ELSE Append(touched, k)
    /\ originalPromises' = IF ShouldCapture(k) THEN StartCapture(k) ELSE originalPromises
    /\ session' = [session EXCEPT !.doneSeen = @ \/ isDone,
                                  !.again = IF k \in Range(touched)
                                            THEN @ \cup {CaptureState(k)} ELSE @]
    /\ UNCHANGED <<cachedMetricsUrl, calls, lastDone, faults, doc, originals, finalized,
                   posts, edits>>
    /\ UNCHANGED sessionFrame

(* the capture read settles: .then sets originals and accumulatedChanges   *)
(* to the text read, .catch sets both to ''                                *)
SessionCapture(k) ==
    /\ originalPromises[k].state = "pending"
    /\ LET text == IF doc[k] = Missing THEN EmptyText ELSE doc[k]
       IN /\ originals' = [originals EXCEPT ![k] = text]
          /\ originalPromises' = [originalPromises EXCEPT
                                     ![k] = [@ EXCEPT !.state = "resolved", !.value = text]]
          /\ session' = [session EXCEPT
                            !.accumulatedChanges = Append(@, [key |-> k, original |-> text]),
                            !.failed = IF doc[k] = Missing THEN @ \cup {k} ELSE @]
    /\ UNCHANGED <<cachedMetricsUrl, calls, lastDone, faults, doc, touched, finalized,
                   posts, events, edits>>
    /\ UNCHANGED sessionFrame

(* mutant: finalization processes the accumulated changes *)
SessionFinalizeFlushes ==
    /\ ~finalized
    /\ finalized' = TRUE
    /\ session.accumulatedChanges # <<>>
    /\ posts' = posts \cup {[key |-> session.accumulatedChanges[1].key, added |-> 0,
                             removed |-> 0, url |-> UrlCm, task |-> 0, late |-> FALSE]}
    /\ UNCHANGED <<cachedMetricsUrl, calls, lastDone, faults, doc, originals, originalPromises,
                   touched, events, edits, session>>
    /\ UNCHANGED sessionFrame

(* the spy's finalize callback: nothing is sent *)
SessionFinalize ==
    /\ ~finalized
    /\ finalized' = TRUE
    /\ UNCHANGED <<cachedMetricsUrl, calls, lastDone, faults, doc, originals, originalPromises,
                   touched, posts, events, edits, session>>
    /\ UNCHANGED sessionFrame

PostsOf(r, k) == {p \in posts : p.task = r /\ p.key = k}

(* the delta of a touched file now, against the captured original or, if  *)
(* none was captured yet, against its content at its first event           *)
FinalDelta(k) ==
    LET before == IF originalPromises[k].before = Missing THEN EmptyText
                  ELSE originalPromises[k].before
        original == IF originals[k] # Undef THEN originals[k] ELSE before
    IN computeSingleFileDelta("B", original, doc[k], TRUE, TRUE).single

Missed(r) == {k \in Range(touched) : FinalDelta(k).some /\ PostsOf(r, k) = {}}

(* processAccumulatedChanges returns *)
EndRun(run, r) ==
    [run EXCEPT !.pc = "done", !.key = "", !.original = Undef, !.last = Undef, !.tries = 0,
                !.missed = Missed(r)]

(* the Map iterator's next(): the entry at position `from`, if there is    *)
(* one now; then `await originalPromise` and computeSingleFileDelta up to  *)
(* the first read of getStableSnapshot                                     *)
NextFile(run, r, from) ==
    IF from <= Len(session.accumulatedChanges)
    THEN LET k == session.accumulatedChanges[from].key
         IN [run EXCEPT !.pc = "read", !.idx = from, !.key = k, !.original = originals[k],
                        !.last = Undef, !.tries = 0]
    ELSE EndRun(run, r)

SetRun(r, run) == session' = [session EXCEPT !.runs[r] = run]

(* finishSession(), to its first await: nothing to do without accumulated  *)
(* changes, otherwise getMetricsRemoteUrl is called                        *)
finishSession ==
    /\ Len(session.runs) < MaxFinish
    /\ LET r == Len(session.runs) + 1
       IN IF session.accumulatedChanges = <<>>
          THEN /\ session' = [session EXCEPT !.runs = Append(@, EndRun(NewRun, r))]
               /\ UNCHANGED <<cachedMetricsUrl, calls, lastDone>>
          ELSE LET out == EnterCall(cachedMetricsUrl, lastDone)
               IN /\ calls' = Append(calls, out.rc)
                  /\ cachedMetricsUrl' = out.cache
                  /\ lastDone' = IF out.rc.pc = "done" THEN Len(calls) + 1 ELSE lastDone
                  /\ session' = [session EXCEPT
                                    !.runs = Append(@, [NewRun EXCEPT !.call = Len(calls) + 1])]
    /\ UNCHANGED <<faults, doc, originals, originalPromises, touched, finalized, posts,
                   events, edits>>
    /\ UNCHANGED sessionFrame

(* `await getMetricsRemoteUrl(...)` resumes: with a URL the loop starts,   *)
(* without one RemoteContentExclusion.asMinimatchPatterns() is awaited     *)
SessionResolved(r) ==
    /\ session.runs[r].pc = "resolve"
    /\ calls[session.runs[r].call].pc = "done"
    /\ LET run == session.runs[r]
           url == calls[run.call].result
       IN IF calls[run.call].rejected THEN SetRun(r, EndRun(run, r))
          ELSE IF url = NoUrl THEN SetRun(r, [run EXCEPT !.pc = "fallback"])
          ELSE SetRun(r, NextFile([run EXCEPT !.url = url], r, 1))
    /\ UNCHANGED <<cachedMetricsUrl, calls, lastDone, faults, doc, originals, originalPromises,
                   touched, finalized, posts, events, edits>>
    /\ UNCHANGED sessionFrame

(* the fallback answers: the first pattern that is an http(s) URL, if any; *)
(* `if (!remoteUrl) return`                                                *)
SessionFallback(r) ==
    /\ session.runs[r].pc = "fallback"
    /\ \E url \in {NoUrl, UrlOther} :
          SetRun(r, IF url = NoUrl THEN EndRun(session.runs[r], r)
                    ELSE NextFile([session.runs[r] EXCEPT !.url = url], r, 1))
    /\ UNCHANGED <<cachedMetricsUrl, calls, lastDone, faults, doc, originals, originalPromises,
                   touched, finalized, posts, events, edits>>
    /\ UNCHANGED sessionFrame

(* the end of one file's turn with a delta: the record is built and        *)
(* postSingleFileRecord is called                                          *)
PostDelta(r, single) ==
    /\ posts' = posts \cup {[key |-> session.runs[r].key, added |-> single.added,
                             removed |-> single.removed, url |-> session.runs[r].url,
                             task |-> r, late |-> FALSE]}
    /\ SetRun(r, [session.runs[r] EXCEPT !.pc = "post"])

(* getStableSnapshot: `let last = await read()`; a read that fails throws  *)
(* into the catch of computeSingleFileDelta                                *)
SessionRead(r) ==
    /\ session.runs[r].pc = "read"
    /\ LET run == session.runs[r]
       IN IF doc[run.key] # Missing
          THEN /\ SetRun(r, [run EXCEPT !.last = doc[run.key], !.tries = 0, !.pc = "reread"])
               /\ UNCHANGED posts
          ELSE LET single == computeSingleFileDelta("B", run.original, Missing, TRUE, TRUE).single
               IN IF single.some THEN PostDelta(r, single)
                  ELSE SetRun(r, NextFile(run, r, run.idx + 1)) /\ UNCHANGED posts
    /\ UNCHANGED <<cachedMetricsUrl, calls, lastDone, faults, doc, originals, originalPromises,
                   touched, finalized, events, edits>>
    /\ UNCHANGED sessionFrame

(* getStableSnapshot: one turn of its loop; when it returns the delta is   *)
(* computed; `if (!single) continue`, otherwise the POST                   *)
SessionReread(r) ==
    /\ session.runs[r].pc = "reread"
    /\ LET run == session.runs[r]
           next == doc[run.key]
           stable == next = Missing \/ next = run.last \/ run.tries + 1 >= maxTries
           single == computeSingleFileDelta("B", run.original, next, TRUE, TRUE).single
       IN IF ~stable
          THEN SetRun(r, [run EXCEPT !.last = next, !.tries = @ + 1]) /\ UNCHANGED posts
          ELSE IF single.some THEN PostDelta(r, single)
          ELSE SetRun(r, NextFile(run, r, run.idx + 1)) /\ UNCHANGED posts
    /\ UNCHANGED <<cachedMetricsUrl, calls, lastDone, faults, doc, originals, originalPromises,
                   touched, finalized, events, edits>>
    /\ UNCHANGED sessionFrame

(* postSingleFileRecord returns (it swallows a failed fetch); next file *)
SessionPosted(r) ==
    /\ session.runs[r].pc = "post"
    /\ SetRun(r, NextFile(session.runs[r], r, session.runs[r].idx + 1))
    /\ UNCHANGED <<cachedMetricsUrl, calls, lastDone, faults, doc, originals, originalPromises,
                   touched, finalized, posts, events, edits>>
    /\ UNCHANGED sessionFrame

SessionInit ==
    /\ variant = "B"
    /\ services = TRUE
    /\ folders = <<>>
    /\ policy = [answers |-> {}, failures |-> {}]
    /\ cachedMetricsUrl \in {UrlCm, NoneCached}
    /\ calls = <<>>
    /\ lastDone = 0
    /\ faults = 0
    /\ scan = IdleScan
    /\ doc \in {d \in [Keys -> {Missing, <<"a", "">>}] : d["f2"] # Missing}
    /\ originals = [k \in Keys |-> Undef]
    /\ originalPromises = [k \in Keys |-> NoPromise]
    /\ touched = <<>>
    /\ persisted = {}
    /\ tasks = <<>>
    /\ finalized = FALSE
    /\ posts = {}
    /\ writes = {}
    /\ events = 0
    /\ lateDone = {}
    /\ edits = 0
    /\ IdleAux

SessionNext ==
    \/ \E k \in Keys, isDone \in BOOLEAN : SessionTextEdit(k, isDone)
    \/ \E k \in Keys : SessionCapture(k)
    \/ \E k \in Keys : ApplyEdit(k)
    \/ SessionFinalize
    \/ finishSession
    \/ \E r \in DOMAIN session.runs : SessionResolved(r)
    \/ \E r \in DOMAIN session.runs : SessionFallback(r)
    \/ \E r \in DOMAIN session.runs : SessionRead(r)
    \/ \E r \in DOMAIN session.runs : SessionReread(r)
    \/ \E r \in DOMAIN session.runs : SessionPosted(r)

SpecSession == SessionInit /\ [][SessionNext]_vars

(* C25: in the session-end wrapper no POST is sent before finishSession()  *)
(* is called: whatever text-edit events (done or not) and stream           *)
(* finalization occur, there is no POST while no finishSession call was    *)
(* made.                                                                   *)
C25_NoPostBeforeFinish == session.runs = <<>> => posts = {}
C25_Witness ==
    /\ finalized /\ session.doneSeen /\ events = 2 /\ edits = 1
    /\ Len(session.accumulatedChanges) = 2
    /\ session.runs = <<>> /\ posts = {}

(* C26: in the session-end wrapper no file is POSTed more than once per    *)
(* wrapper instance, also when finishSession() is invoked more than once.  *)
C26_OnePostPerFile == \A k \in Keys : Cardinality({p \in posts : p.key = k}) <= 1

(* C27: when a finishSession() call returns with an endpoint resolved,     *)
(* every file for which a text-edit event was observed and whose final     *)
(* delta is non-zero has been POSTed by it, also a file whose capture read *)
(* had not completed when finishSession() was called.                      *)
C27_FinishPostsEveryChangedFile ==
    \A r \in DOMAIN session.runs :
        (session.runs[r].pc = "done" /\ session.runs[r].url # NoUrl)
        => session.runs[r].missed = {}

(* C29: the capture read of a file is started at most once per file key,   *)
(* also when further events for the file arrive while the first read is    *)
(* pending, after it succeeded or after it failed.                         *)
C29_CaptureStartedOnce == \A k \in Keys : originalPromises[k].reads <= 1
C29_Witness ==
    /\ events = 2 /\ touched = <<"f1">>
    /\ session.again = {"pending"}
    /\ originalPromises["f1"].reads = 1

(* --------------------------- getStableSnapshot ------------------------- *)
(* SpecSnapshot: one call of getStableSnapshot (the same text in           *)
(* lineChangeRecorder.ts and part_000). Each read answers with the text    *)
(* the document has then, any of Texts, or fails.                          *)
snapFrame == <<delta, sessionStats, save, fsOps, tracked, mgr, tools, session, recorderVars>>

(* mutant: the loop makes one more turn *)
ExhaustedLate(i) == i >= maxTries + 1

(* the for loop's test `i < maxTries` fails *)
Exhausted(i) == i >= maxTries

(* a read that throws ends the call: getStableSnapshot has no try *)
ReadFailed == [snap EXCEPT !.pc = "done", !.texts = Append(@, Missing), !.rejected = TRUE]

(* `let last = await read()` *)
SnapFirstRead(text) ==
    /\ snap.pc = "first"
    /\ snap' = IF text = Missing THEN ReadFailed
               ELSE [snap EXCEPT !.pc = "loop", !.texts = Append(@, text), !.last = text, !.i = 0]
    /\ UNCHANGED snapFrame

(* one turn of the loop: sleep(100), read, return next if it equals last,  *)
(* otherwise last = next, i++ and, when the loop is over, return last      *)
SnapReread(text) ==
    /\ snap.pc = "loop"
    /\ snap' = IF text = Missing THEN ReadFailed
               ELSE IF text = snap.last
               THEN [snap EXCEPT !.pc = "done", !.texts = Append(@, text), !.result = text]
               ELSE IF Exhausted(snap.i + 1)
               THEN [snap EXCEPT !.pc = "done", !.texts = Append(@, text), !.last = text,
                                 !.i = @ + 1, !.result = text]
               ELSE [snap EXCEPT !.texts = Append(@, text), !.last = text, !.i = @ + 1]
    /\ UNCHANGED snapFrame

SnapshotInit ==
    /\ delta = IdleDelta
    /\ sessionStats = createNewSession
    /\ save = IdleSave
    /\ fsOps = <<>>
    /\ tracked = NoTracked
    /\ mgr = NewManager
    /\ variant = "A"
    /\ services = TRUE
    /\ folders = <<>>
    /\ policy = [answers |-> {}, failures |-> {}]
    /\ cachedMetricsUrl = Unknown
    /\ calls = <<>>
    /\ lastDone = 0
    /\ faults = 0
    /\ scan = IdleScan
    /\ IdleWrapper
    /\ tools = IdleTools
    /\ session = IdleSession
    /\ snap = [IdleSnap EXCEPT !.pc = "first"]

SnapshotNext ==
    \/ \E text \in Texts \cup {Missing} : SnapFirstRead(text)
    \/ \E text \in Texts \cup {Missing} : SnapReread(text)

(* every read and every sleep(100) completes *)
SpecSnapshot == SnapshotInit /\ [][SnapshotNext]_vars /\ WF_vars(SnapshotNext)

Reads == Len(snap.texts)

(* C28, as stated: getStableSnapshot always ends after at least 2 and at   *)
(* most 11 reads and returns the content of the last read; it returns at   *)
(* the first read equal to the read before it, and makes 11 reads only if  *)
(* each of the first 9 re-reads differed from the read before it.          *)
C28_AlwaysReturnsAfter2To11Reads ==
    snap.pc = "done" =>
        /\ ~snap.rejected
        /\ Reads >= 2 /\ Reads <= 11
        /\ snap.result = snap.texts[Reads]
        /\ \A j \in 2..(Reads - 1) : snap.texts[j] # snap.texts[j - 1]
        /\ Reads < 11 => snap.texts[Reads] = snap.texts[Reads - 1]
        /\ Reads = 11 => \A j \in 2..10 : snap.texts[j] # snap.texts[j - 1]

(* C28, amended: getStableSnapshot always ends after at most 11 reads; if  *)
(* no read fails it has made at least 2, returns the content of the last   *)
(* one, returns at the first read equal to the read before it, and makes   *)
(* 11 reads only if each of the first 9 re-reads differed from the read    *)
(* before it; if a read fails the call rejects at that read.               *)
C28_Ended ==
    snap.pc = "done" =>
        /\ Reads >= 1 /\ Reads <= 11
        /\ \A j \in 2..(Reads - 1) : snap.texts[j] # snap.texts[j - 1]
        /\ \A j \in 1..(Reads - 1) : snap.texts[j] # Missing
        /\ snap.rejected <=> snap.texts[Reads] = Missing
        /\ ~snap.rejected =>
              /\ Reads >= 2
              /\ snap.result = snap.texts[Reads]
              /\ Reads < 11 => snap.texts[Reads] = snap.texts[Reads - 1]
              /\ Reads = 11 => \A j \in 2..10 : snap.texts[j] # snap.texts[j - 1]
C28_EndsWithin11Reads == [](Reads <= 11 /\ C28_Ended) /\ <>(snap.pc = "done")
C28_Witness ==
    /\ snap.pc = "done" /\ ~snap.rejected /\ Reads = 11
    /\ snap.result = snap.texts[11] /\ snap.texts[11] # snap.texts[10]

(* ------------------- the name of the local record file ----------------- *)
MaxPathLen == 3

(* the characters the display paths are built from, and the class          *)
(* [a-zA-Z0-9._-] of the replacement                                       *)
PathChars == {"a", "Z", "7", ".", "-", "_", "/", " ", "#"}
AllowedChars ==
    {"a", "b", "c", "d", "e", "f", "g", "h", "i", "j", "k", "l", "m",
     "n", "o", "p", "q", "r", "s", "t", "u", "v", "w", "x", "y", "z",
     "A", "B", "C", "D", "E", "F", "G", "H", "I", "J", "K", "L", "M",
     "N", "O", "P", "Q", "R", "S", "T", "U", "V", "W", "X", "Y", "Z",
     "0", "1", "2", "3", "4", "5", "6", "7", "8", "9", ".", "_", "-"}

(* path.posix.basename: trailing slashes are dropped, then the part after  *)
(* the last slash is taken                                                 *)
RECURSIVE StripSlashes(_)
StripSlashes(p) ==
    IF p # <<>> /\ p[Len(p)] = "/" THEN StripSlashes(SubSeq(p, 1, Len(p) - 1)) ELSE p
RECURSIVE LastSlash(_)
LastSlash(p) ==
    IF p = <<>> THEN 0
    ELSE IF p[Len(p)] = "/" THEN Len(p)
    ELSE LastSlash(SubSeq(p, 1, Len(p) - 1))
basename(p) == LET q == StripSlashes(p) IN SubSeq(q, LastSlash(q) + 1, Len(q))

(* mutant: the pattern without the g flag replaces the first match only *)
ReplaceFirstDisallowed(b) ==
    [i \in 1..Len(b) |->
        IF b[i] \notin AllowedChars /\ (\A j \in 1..(i - 1) : b[j] \in AllowedChars)
        THEN "_" ELSE b[i]]

(* .replace(/[^a-zA-Z0-9._-]/g, '_') *)
ReplaceDisallowed(b) == [i \in 1..Len(b) |-> IF b[i] \in AllowedChars THEN b[i] ELSE "_"]

FileNameInit ==
    /\ delta \in {[IdleDelta EXCEPT !.pc = "record", !.inFolder = w, !.displayPath = p] :
                    w \in BOOLEAN, p \in SeqsUpTo(PathChars, MaxPathLen)}
    /\ sessionStats = createNewSession
    /\ save = IdleSave
    /\ fsOps = <<>>
    /\ tracked = NoTracked
    /\ mgr = NewManager
    /\ IdleRecorder

(* writeSingleFileRecord up to the name of the output file *)
writeSingleFileRecord ==
    /\ delta.pc = "record"
    /\ delta' = IF ~delta.inFolder THEN [delta EXCEPT !.pc = "returned"]
                ELSE [delta EXCEPT !.pc = "named",
                                   !.fileBase = ReplaceDisallowed(basename(delta.displayPath))]
    /\ UNCHANGED <<sessionStats, save, fsOps, tracked, mgr>>
    /\ UNCHANGED recorderVars
    /\ UNCHANGED extraVars

FileNameNext ==
    \/ writeSingleFileRecord

SpecFileName == FileNameInit /\ [][FileNameNext]_vars

(* C34: the file-base part of the output file name has the length of the   *)
(* display path's basename, holds only characters of [A-Za-z0-9._-], has   *)
(* '_' exactly where the basename has another character and the            *)
(* basename's character elsewhere, and is unchanged by a second            *)
(* replacement.                                                            *)
C34_FileBaseIsSanitized ==
    delta.pc = "named" =>
        LET b == basename(delta.displayPath)
            f == delta.fileBase
        IN /\ Len(f) = Len(b)
           /\ \A i \in 1..Len(f) :
                /\ f[i] \in AllowedChars
                /\ b[i] \in AllowedChars => f[i] = b[i]
                /\ b[i] \notin AllowedChars => f[i] = "_"
           /\ \A i \in 1..Len(f) : f[i] # "/"
           /\ ReplaceDisallowed(f) = f
C34_Witness ==
    /\ delta.pc = "named" /\ delta.displayPath = <<"/", "#", " ">>
    /\ delta.fileBase = <<"_", "_">>

(* --------------------------- calculateLineDiff ------------------------- *)
MaxDiffLines == 3

(* non-empty contents, as split('\n') gives them *)
DiffContents == (SeqsUpTo({"a", "b", ""}, MaxDiffLines) \ {<<>>}) \ {EmptyText}

LineDiffInit ==
    /\ tracked \in {[NoTracked EXCEPT !.call = "update", !.operation = "update",
                                      !.oldContent = o, !.newContent = n] :
                      o \in DiffContents, n \in DiffContents}
    /\ delta = IdleDelta
    /\ sessionStats = createNewSession
    /\ save = IdleSave
    /\ fsOps = <<>>
    /\ mgr = NewManager
    /\ IdleRecorder

(* const diff = this.calculateLineDiff(oldContent, newContent) *)
RunLineDiff ==
    /\ tracked.call = "update"
    /\ LET diff == calculateLineDiff(tracked.oldContent, tracked.newContent)
       IN tracked' = [tracked EXCEPT !.call = "calculateLineDiff",
                                     !.addedLines = diff.addedLines,
                                     !.removedLines = diff.removedLines]
    /\ UNCHANGED <<delta, sessionStats, save, fsOps, mgr>>
    /\ UNCHANGED recorderVars
    /\ UNCHANGED extraVars

LineDiffNext ==
    \/ RunLineDiff

SpecLineDiff == LineDiffInit /\ [][LineDiffNext]_vars

DifferingPositions(o, n) == Cardinality({i \in 1..Len(o) : i <= Len(n) /\ o[i] # n[i]})

getSessionStats ==
    /\ ~tracked.returned.some
    /\ tracked' = [tracked EXCEPT !.returned =
                      [some |-> TRUE, sessionId |-> sessionStats.sessionId,
                       totalFilesChanged |-> sessionStats.totalFilesChanged,
                       totalAddedLines |-> sessionStats.totalAddedLines,
                       totalRemovedLines |-> sessionStats.totalRemovedLines,
                       alias |-> TRUE, fileChanges |-> <<>>,
                       atReturn |-> sessionStats.fileChanges]]
    /\ UNCHANGED <<delta, sessionStats, save, fsOps, mgr>>
    /\ UNCHANGED recorderVars
    /\ UNCHANGED extraVars

(* the fileChanges list seen through a returned value *)
ReturnedFileChanges ==
    IF tracked.returned.alias THEN sessionStats.fileChanges ELSE tracked.returned.fileChanges

StatsInit ==
    /\ delta = IdleDelta
    /\ sessionStats = createNewSession
    /\ save = IdleSave
    /\ fsOps = <<>>
    /\ tracked = NoTracked
    /\ mgr = NewManager
    /\ IdleRecorder

StatsNext ==
    \/ \E f \in FilePaths : trackFileChange(f, "update", <<"a", "b">>, <<"a">>)
    \/ \E f \in FilePaths, a \in 0..MaxExact : trackFileChangeWithExactLines(f, "add", a, 0)
    \/ \E id \in SessionIds : resetSession(id)
    \/ getSessionStats

SpecStats == StatsInit /\ [][StatsNext]_vars

(* C38: a value returned by getSessionStats is a snapshot: its totals and  *)
(* its fileChanges list stay as they were when it was returned, so its     *)
(* totalFilesChanged equals the length of its fileChanges.                 *)
C38_ReturnedStatsAreSnapshot ==
    tracked.returned.some =>
        /\ ReturnedFileChanges = tracked.returned.atReturn
        /\ tracked.returned.totalFilesChanged = Len(ReturnedFileChanges)

(* the distinct file paths of the tracker's fileChanges *)
DistinctPaths == {sessionStats.fileChanges[i].filePath : i \in DOMAIN sessionStats.fileChanges}

(* C40: totalFilesChanged of a tracker never exceeds the number of         *)
(* distinct file paths in its fileChanges: two changes of one file in a    *)
(* session count the file once.                                            *)
C40_FilesCountedOnce == sessionStats.totalFilesChanged <= Cardinality(DistinctPaths)

====
